---- MODULE Spec2Model ----
(***************************************************************************)
(* Multi-job orchestration core of the WhatsApp conversation analyser:     *)
(* ProcessingJob (src/src/processing_job.py), the single-archive helpers   *)
(* of src/main.py and the MultiFileProcessor coordinator                   *)
(* (src/src/multi_file_processor.py).                                      *)
(*                                                                         *)
(* Progress fractions are kept in tenths (0.1 is 1, 1.0 is 10).            *)
(* Job ids are 1, 2, ...: uuid4 prefixes are taken to be fresh, and the    *)
(* registry (a dict) iterates in insertion order, which is id order.       *)
(***************************************************************************)
EXTENDS Integers, Sequences, FiniteSets, TLC

\* ------------------------------------------------------------------ bounds
\* Number of archives ever submitted to one coordinator.
MaxJobs == 2
\* Number of coordinator calls made in one behaviour.
MaxCalls == 3

\* ------------------------------------------------------- program constants
\* MultiFileProcessor.__init__(max_workers: int = 3)
max_workers == 3
\* ProcessingJob.progress after each stage, in tenths
ProgressInit == 0
ProgressPreStart == 1
ProgressPreDone == 5
ProgressProcStart == 6
ProgressProcValidate == 7
ProgressProcDone == 8
ProgressPostStart == 9
ProgressDone == 10

\* ------------------------------------------------------------------ inputs
Threads == {"main", "other"}
NoThread == "nobody"
None == "None"

\* Archive names handed to submit_zip, as (stem, suffix).
ZipNames == {<<"chatA", "zip">>, <<"chatB", "zip">>}
\* What the archive at zip_path holds: transcript and voice notes at the top
\* level, the same under a root folder, or a transcript without voice notes.
ArchiveKinds == {"flat", "nested", "noaudio"}
\* os.name of the host: Path.rename replaces an existing target on posix and
\* raises FileExistsError on nt.
Platforms == {"posix", "nt"}

JobIds == 1..MaxJobs
\* Pool sizes a coordinator is constructed with: up to the default.
PoolSizes == 1..max_workers

\* Path(zip_name).stem
Stem(zip_name) == zip_name[1]

\* ----------------------------------------------------------------- paths
\* Files of output_data, told apart by the pattern that built the name.
\* ProcessingJob.__init__: output_dir / f"{zip_stem}.txt"
FinalOutputPath(zip_name) == [pattern |-> "final", stem |-> Stem(zip_name), id |-> 0]
\* ProcessingJob.__init__: processing_dir / f"{zip_stem}_{job_id}"
WorkDir(zip_name, job_id) == [stem |-> Stem(zip_name), id |-> job_id]
\* preprocess_single_zip / postprocess_single_zip / ProcessingJob.process:
\* output_dir / f"chat_{zip_stem}_{work_dir.name}.txt"
TempOutputPath(zip_name, work_dir) ==
    [pattern |-> "chat_stem_workdir", stem |-> Stem(zip_name), id |-> work_dir.id]
\* ProcessingJob.cleanup: output_dir / f"chat_{job_id}.txt"
CleanupTempFile(job_id) == [pattern |-> "chat_id", stem |-> "", id |-> job_id]

VARIABLES
    platform,        \* host operating system
    pool_size,       \* MultiFileProcessor.max_workers, as the constructor was called
    jobs,            \* MultiFileProcessor.jobs: the registered job ids
    obj,             \* the ProcessingJob objects ever constructed, by id
    processing_dir,  \* work directories that exist under input_data/processing
    output_data,     \* files of output_data: path -> job whose transcript it holds
    lock,            \* MultiFileProcessor.lock: the thread holding it
    pc,              \* each caller thread's position, and the job_id argument of its call
    iter,            \* process_all_jobs: state of the iteration over self.jobs
    completed_jobs,  \* cleanup_completed_jobs: ids still to clean, and the count
    run,             \* run_complete_processing executions started by each thread
    ret,             \* what the last finished call of each thread returned
    calls,           \* calls started so far
    text_file,       \* the transcript at WhatsAppTextProcessor.text_file_path
    lines,           \* WhatsAppTextProcessor.lines
    args             \* arguments the text processor is called with

text_vars == <<text_file, lines, args>>
job_vars == <<pool_size, jobs, obj, processing_dir, output_data, lock, pc, iter,
              completed_jobs, run>>
vars == <<platform, pool_size, jobs, obj, processing_dir, output_data, lock, pc, iter,
          completed_jobs, run, ret, calls, text_file, lines, args>>

\* Function helpers.
Remove(f, k) == [x \in DOMAIN f \ {k} |-> f[x]]
Put(f, k, v) == (k :> v) @@ Remove(f, k)
Empty == <<>>

Exists(path) == path \in DOMAIN output_data

\* None where a path is expected.
NoPath == [pattern |-> "none", stem |-> "", id |-> 0]
\* None where a time is expected: earlier than every reading of the clock.
NoTime == 0

\* ProcessingJob.__init__
NewJob(job_id, zip_name, kind) ==
    [job_id |-> job_id,
     zip_name |-> zip_name,
     archive |-> kind,
     work_dir |-> WorkDir(zip_name, job_id),
     final_output_path |-> FinalOutputPath(zip_name),
     status |-> "pending",
     progress |-> ProgressInit,
     error |-> None,
     result |-> None,
     start_time |-> NoTime,
     end_time |-> NoTime]

\* ProcessingJob.get_status
GetStatus(j) ==
    [job_id |-> obj[j].job_id,
     zip_name |-> obj[j].zip_name,
     status |-> obj[j].status,
     progress |-> obj[j].progress,
     error |-> obj[j].error,
     result |-> obj[j].result,
     start_time |-> obj[j].start_time,
     end_time |-> obj[j].end_time,
     final_output_path |->
        IF Exists(obj[j].final_output_path) THEN obj[j].final_output_path ELSE NoPath]

Idle == [at |-> "idle", job_id |-> 0]
NoRet == [op |-> "none", raised |-> FALSE, val |-> None]
NoIter == [called |-> {}, size |-> 0, pos |-> 0]
NoCleanup == [todo |-> <<>>, cleaned_count |-> 0]

NoArgs == [transcription_text |-> <<>>, audio_filename |-> None]

\* A coordinator just constructed, with no job registered.
InitJobs ==
    /\ jobs = {}
    /\ obj = <<>>
    /\ processing_dir = {}
    /\ output_data = Empty
    /\ lock = NoThread
    /\ pc = [t \in Threads |-> Idle]
    /\ iter = [t \in Threads |-> NoIter]
    /\ completed_jobs = [t \in Threads |-> NoCleanup]
    /\ run = [t \in Threads |-> Empty]
    /\ ret = [t \in Threads |-> NoRet]
    /\ calls = 0

Init ==
    /\ platform \in Platforms
    /\ pool_size \in PoolSizes
    /\ InitJobs
    /\ text_file = <<>>
    /\ lines = <<>>
    /\ args = NoArgs


\* ------------------------------------------------- one job's execution
\* A run is one execution of run_complete_processing: run[t][j] is the one
\* thread t started for job j (in a pool worker for process_all_jobs, in t
\* itself for process_single_job).
At(t, j) == IF j \in DOMAIN run[t] THEN run[t][j].at ELSE "none"
Queued(j) == [at |-> "queued", result |-> None]
Executing == {"pre", "pre_done", "proc", "proc_done", "post"}

\* self.error as the except branch of each phase sets it.
ErrorPreprocess == "Error en preprocesamiento: preprocess_single_zip returned False"
ErrorProcess == "Error en procesamiento: Validacion fallida"
ErrorPostprocess == "Error en postprocesamiento: postprocess_single_zip returned False"

\* The result dicts of run_complete_processing.
RunFailure(j, error) == [success |-> FALSE, error |-> error, job_id |-> j]
RunSuccess(j) == [success |-> TRUE, error |-> None, job_id |-> j]
\* A result built from self.error alone.
ProcessFailureErrorUnset(error) == error

\* run_complete_processing after process(): self.error or "Error en procesamiento"
ProcessFailureError(error) == IF error # None THEN error ELSE "Error en procesamiento"

\* run_complete_processing going on to postprocess whatever process returned
ProcessSucceededAlways(process_result) == TRUE

\* run_complete_processing: process_result.get("success")
ProcessSucceeded(process_result) == process_result.success

Finish(t, j, result) ==
    run' = [run EXCEPT ![t][j] = [at |-> "done", result |-> result]]
Goto(t, j, at) == run' = [run EXCEPT ![t][j].at = at]

\* ThreadPoolExecutor: a worker takes the oldest queued future while fewer
\* than self.max_workers futures of this executor are running. process_single_job
\* runs the job in the calling thread, with nothing to wait for.
CanStart(t, j) ==
    pc[t].at = "single_run"
    \/ /\ \A k \in DOMAIN run[t] : run[t][k].at = "queued" => j <= k
       /\ Cardinality({k \in DOMAIN run[t] : run[t][k].at \in Executing}) < pool_size

\* datetime.now(): the clock reads the number of calls begun so far; it
\* never runs backwards, and two readings within one call may be equal.
Clock == calls

\* run_complete_processing starts and enters preprocess(): start_time, then
\* status and progress on entry
PreprocessBegin(t, j) ==
    /\ At(t, j) = "queued"
    /\ CanStart(t, j)
    /\ obj' = [obj EXCEPT ![j].start_time = Clock,
                          ![j].status = "preprocessing",
                          ![j].progress = ProgressPreStart]
    /\ Goto(t, j, "pre")
    /\ UNCHANGED <<text_vars, platform, pool_size, jobs, processing_dir, output_data, lock, pc, iter,
                   completed_jobs, ret, calls>>

\* main.preprocess_single_zip: the values it can return. The archive is
\* extracted and only the top level of the extraction directory is searched
\* for the transcript; on a second extraction into the same directory chat.txt
\* is already there, and renaming onto it fails on nt when the glob lists the
\* archive's own transcript first.
PreprocessSingleZip(j) ==
    IF obj[j].archive \notin {"flat", "noaudio"} THEN {FALSE}
    ELSE IF platform = "nt" /\ obj[j].work_dir \in processing_dir THEN {TRUE, FALSE}
    ELSE {TRUE}

\* preprocess(): after main.preprocess_single_zip returned
PreprocessEnd(t, j) ==
    /\ At(t, j) = "pre"
    /\ \E success \in PreprocessSingleZip(j) :
        /\ processing_dir' = processing_dir \cup {obj[j].work_dir}
        /\ IF success
           THEN /\ output_data' =
                      Put(output_data, TempOutputPath(obj[j].zip_name, obj[j].work_dir), j)
                /\ obj' = [obj EXCEPT ![j].progress = ProgressPreDone]
                /\ Goto(t, j, "pre_done")
           ELSE /\ output_data' = output_data
                /\ obj' = [obj EXCEPT ![j].status = "failed",
                                      ![j].error = ErrorPreprocess]
                /\ Finish(t, j, RunFailure(j, ErrorPreprocess))
    /\ UNCHANGED <<text_vars, platform, pool_size, jobs, lock, pc, iter, completed_jobs, ret, calls>>

\* process(): status and progress on entry
ProcessBegin(t, j) ==
    /\ At(t, j) = "pre_done"
    /\ obj' = [obj EXCEPT ![j].status = "processing",
                          ![j].progress = ProgressProcStart]
    /\ Goto(t, j, "proc")
    /\ UNCHANGED <<text_vars, platform, pool_size, jobs, processing_dir, output_data, lock, pc, iter,
                   completed_jobs, ret, calls>>

\* ConversationProcessor.validate_inputs: the media directory exists, the
\* temporary transcript exists and a voice note with a dated name is found.
ValidateInputs(j) ==
    /\ obj[j].work_dir \in processing_dir
    /\ Exists(TempOutputPath(obj[j].zip_name, obj[j].work_dir))
    /\ obj[j].archive = "flat"

\* process(): from building the ConversationProcessor to the return.
\* transcribed: at least one voice note came back with text, which is what
\* process_audio_files reports as success.
ProcessEnd(t, j) ==
    /\ At(t, j) = "proc"
    /\ IF ~ValidateInputs(j)
       THEN /\ obj' = [obj EXCEPT ![j].progress = ProgressProcValidate,
                                  ![j].status = "failed",
                                  ![j].error = ErrorProcess]
            /\ Finish(t, j, RunFailure(j, ErrorProcess))
       ELSE \E transcribed \in BOOLEAN :
            /\ obj' = [obj EXCEPT ![j].progress = ProgressProcDone,
                                  ![j].result = [success |-> transcribed]]
            /\ IF ProcessSucceeded([success |-> transcribed])
               THEN Goto(t, j, "proc_done")
               ELSE Finish(t, j, RunFailure(j, ProcessFailureError(obj[j].error)))
    /\ UNCHANGED <<text_vars, platform, pool_size, jobs, processing_dir, output_data, lock, pc, iter,
                   completed_jobs, ret, calls>>

\* postprocess(): status and progress on entry
PostprocessBegin(t, j) ==
    /\ At(t, j) = "proc_done"
    /\ obj' = [obj EXCEPT ![j].status = "postprocessing",
                          ![j].progress = ProgressPostStart]
    /\ Goto(t, j, "post")
    /\ UNCHANGED <<text_vars, platform, pool_size, jobs, processing_dir, output_data, lock, pc, iter,
                   completed_jobs, ret, calls>>

\* main.postprocess_single_zip: whether the rename of the temporary copy to
\* final_output_path goes through.
PostprocessSingleZip(j) ==
    /\ Exists(TempOutputPath(obj[j].zip_name, obj[j].work_dir))
    /\ platform = "nt" => ~Exists(obj[j].final_output_path)

\* Path.rename(temp_output_path, final_output_path)
Rename(files, from, to) == Put(Remove(files, from), to, files[from])

\* postprocess(): after main.postprocess_single_zip returned
PostprocessEnd(t, j) ==
    /\ At(t, j) = "post"
    /\ IF PostprocessSingleZip(j)
       THEN /\ output_data' =
                  Rename(output_data, TempOutputPath(obj[j].zip_name, obj[j].work_dir),
                         obj[j].final_output_path)
            /\ obj' = [obj EXCEPT ![j].progress = ProgressDone,
                                  ![j].status = "completed",
                                  ![j].end_time = Clock]
            /\ Finish(t, j, RunSuccess(j))
       ELSE /\ output_data' = output_data
            /\ obj' = [obj EXCEPT ![j].status = "failed",
                                  ![j].error = ErrorPostprocess]
            /\ Finish(t, j, RunFailure(j, ErrorPostprocess))
    /\ UNCHANGED <<text_vars, platform, pool_size, jobs, processing_dir, lock, pc, iter,
                   completed_jobs, ret, calls>>

\* ------------------------------------------------------- the coordinator
Return(t, op, val) ==
    /\ pc' = [pc EXCEPT ![t] = Idle]
    /\ ret' = [ret EXCEPT ![t] = [op |-> op, raised |-> FALSE, val |-> val]]
Raise(t, op, exc) ==
    /\ pc' = [pc EXCEPT ![t] = Idle]
    /\ ret' = [ret EXCEPT ![t] = [op |-> op, raised |-> TRUE, val |-> exc]]
\* A call starts: the previous call's return value is gone.
Call(t, at, job_id) ==
    /\ pc[t] = Idle
    /\ calls < MaxCalls
    /\ calls' = calls + 1
    /\ pc' = [pc EXCEPT ![t] = [at |-> at, job_id |-> job_id]]
    /\ ret' = [ret EXCEPT ![t] = NoRet]
Acquire(t) == lock = NoThread /\ lock' = t
Release(t) == lock' = NoThread

\* submit_zip: "with self.lock" entered
SubmitBegin(t) ==
    /\ Len(obj) < MaxJobs
    /\ Call(t, "submit", 0)
    /\ Acquire(t)
    /\ UNCHANGED <<text_vars, platform, pool_size, jobs, obj, processing_dir, output_data, iter,
                   completed_jobs, run>>

\* submit_zip: self.jobs[job_id] = ProcessingJob(...), lock released, id returned
SubmitInsert(t) ==
    /\ pc[t].at = "submit"
    /\ \E zip_name \in ZipNames, kind \in ArchiveKinds :
        LET job_id == Len(obj) + 1 IN
        /\ obj' = Append(obj, NewJob(job_id, zip_name, kind))
        /\ jobs' = jobs \cup {job_id}
        /\ Return(t, "submit_zip", job_id)
    /\ Release(t)
    /\ UNCHANGED <<text_vars, platform, pool_size, processing_dir, output_data, iter, completed_jobs,
                   run, calls>>

\* get_job_status: "with self.lock" entered
StatusBegin(t, job_id) ==
    /\ Call(t, "status", job_id)
    /\ Acquire(t)
    /\ UNCHANGED <<text_vars, platform, pool_size, jobs, obj, processing_dir, output_data, iter,
                   completed_jobs, run>>

\* get_job_status: self.jobs.get(job_id), the snapshot or None
JobStatus(job_id) == IF job_id \in jobs THEN GetStatus(job_id) ELSE None

StatusRead(t) ==
    /\ pc[t].at = "status"
    /\ Return(t, "get_job_status", JobStatus(pc[t].job_id))
    /\ Release(t)
    /\ UNCHANGED <<text_vars, platform, pool_size, jobs, obj, processing_dir, output_data, iter,
                   completed_jobs, run, calls>>

\* cancel_job: "with self.lock" entered
CancelBegin(t, job_id) ==
    /\ Call(t, "cancel_check", job_id)
    /\ Acquire(t)
    /\ UNCHANGED <<text_vars, platform, pool_size, jobs, obj, processing_dir, output_data, iter,
                   completed_jobs, run>>

\* A cancel_job that does not look at the status.
CancellableAnyStatus(job_id) == job_id \in jobs

\* cancel_job: job and job.status == "pending"
Cancellable(job_id) == job_id \in jobs /\ obj[job_id].status = "pending"

\* cancel_job: the test; False is returned when it fails
CancelCheck(t) ==
    /\ pc[t].at = "cancel_check"
    /\ IF Cancellable(pc[t].job_id)
       THEN /\ pc' = [pc EXCEPT ![t].at = "cancel_set"]
            /\ UNCHANGED <<lock, ret>>
       ELSE /\ Return(t, "cancel_job", FALSE)
            /\ Release(t)
    /\ UNCHANGED <<text_vars, platform, pool_size, jobs, obj, processing_dir, output_data, iter,
                   completed_jobs, run, calls>>

\* cancel_job: job.status = "cancelled"; return True
CancelSet(t) ==
    /\ pc[t].at = "cancel_set"
    /\ obj' = [obj EXCEPT ![pc[t].job_id].status = "cancelled"]
    /\ Return(t, "cancel_job", TRUE)
    /\ Release(t)
    /\ UNCHANGED <<text_vars, platform, pool_size, jobs, processing_dir, output_data, iter,
                   completed_jobs, run, calls>>

\* process_single_job: "with self.lock" entered
SingleBegin(t, job_id) ==
    /\ Call(t, "single_get", job_id)
    /\ Acquire(t)
    /\ UNCHANGED <<text_vars, platform, pool_size, jobs, obj, processing_dir, output_data, iter,
                   completed_jobs, run>>

\* process_single_job: the result for an unknown id
NotFound == [success |-> FALSE, error |-> "no encontrado"]

\* process_single_job: job = self.jobs.get(job_id); lock released; then either
\* the not-found result or job.run_complete_processing() starts in this thread
SingleGet(t) ==
    /\ pc[t].at = "single_get"
    /\ Release(t)
    /\ IF pc[t].job_id \in jobs
       THEN /\ pc' = [pc EXCEPT ![t].at = "single_run"]
            /\ run' = [run EXCEPT ![t] = (pc[t].job_id :> Queued(pc[t].job_id))]
            /\ ret' = ret
       ELSE /\ Return(t, "process_single_job", NotFound)
            /\ run' = run
    /\ UNCHANGED <<text_vars, platform, pool_size, jobs, obj, processing_dir, output_data, iter,
                   completed_jobs, calls>>

\* process_single_job: run_complete_processing returned
SingleReturn(t) ==
    /\ pc[t].at = "single_run"
    /\ At(t, pc[t].job_id) = "done"
    /\ Return(t, "process_single_job", run[t][pc[t].job_id].result)
    /\ run' = [run EXCEPT ![t] = Empty]
    /\ UNCHANGED <<text_vars, platform, pool_size, jobs, obj, processing_dir, output_data, lock, iter,
                   completed_jobs, calls>>


\* process_all_jobs: "if not self.jobs" (no lock held); otherwise the executor
\* is created and the iteration over self.jobs.items() starts
AllCheck(t) ==
    /\ pc[t] = Idle
    /\ calls < MaxCalls
    /\ calls' = calls + 1
    /\ IF jobs = {}
       THEN /\ Return(t, "process_all_jobs", [called |-> {}, results |-> Empty])
            /\ UNCHANGED <<iter, run>>
       ELSE /\ pc' = [pc EXCEPT ![t].at = "pa_iter"]
            /\ ret' = [ret EXCEPT ![t] = NoRet]
            /\ iter' = [iter EXCEPT ![t] =
                          [called |-> jobs, size |-> Cardinality(jobs), pos |-> 0]]
            /\ run' = [run EXCEPT ![t] = Empty]
    /\ UNCHANGED <<text_vars, platform, pool_size, jobs, obj, processing_dir, output_data, lock,
                   completed_jobs>>

\* The dict iterator: the keys not yet visited, in insertion order.
Remaining(t) == {k \in jobs : k > iter[t].pos}
NextKey(t) == CHOOSE k \in Remaining(t) : \A m \in Remaining(t) : k <= m

\* process_all_jobs: executor.submit(job.run_complete_processing) for the next
\* item of self.jobs.items() (no lock held)
AllSubmit(t) ==
    /\ pc[t].at = "pa_iter"
    /\ Cardinality(jobs) = iter[t].size
    /\ Remaining(t) # {}
    /\ run' = [run EXCEPT ![t] = Put(run[t], NextKey(t), Queued(NextKey(t)))]
    /\ iter' = [iter EXCEPT ![t].pos = NextKey(t)]
    /\ UNCHANGED <<text_vars, platform, pool_size, jobs, obj, processing_dir, output_data, lock, pc,
                   completed_jobs, ret, calls>>

\* process_all_jobs: the iteration is exhausted
AllSubmitted(t) ==
    /\ pc[t].at = "pa_iter"
    /\ Cardinality(jobs) = iter[t].size
    /\ Remaining(t) = {}
    /\ pc' = [pc EXCEPT ![t].at = "pa_wait"]
    /\ UNCHANGED <<text_vars, platform, pool_size, jobs, obj, processing_dir, output_data, lock, iter,
                   completed_jobs, run, ret, calls>>

\* process_all_jobs: "dictionary changed size during iteration" (RuntimeError)
\* when another thread inserted into or deleted from self.jobs meanwhile
AllIterChanged(t) ==
    /\ pc[t].at = "pa_iter"
    /\ Cardinality(jobs) # iter[t].size
    /\ pc' = [pc EXCEPT ![t].at = "pa_abort"]
    /\ UNCHANGED <<text_vars, platform, pool_size, jobs, obj, processing_dir, output_data, lock, iter,
                   completed_jobs, run, ret, calls>>

\* A gathering loop that records only the jobs that succeeded.
GatherSuccessful(futures) ==
    [j \in {k \in DOMAIN futures : futures[k].result.success} |-> futures[j].result]

\* process_all_jobs: the as_completed loop, results[job_id] = future.result()
\* for every future (run_complete_processing returns a dict, so the except
\* branch of the loop has nothing to catch)
Gather(futures) == [j \in DOMAIN futures |-> futures[j].result]

\* process_all_jobs: every future is done; the mapping is returned
AllReturn(t) ==
    /\ pc[t].at = "pa_wait"
    /\ \A j \in DOMAIN run[t] : run[t][j].at = "done"
    /\ Return(t, "process_all_jobs",
              [called |-> iter[t].called, results |-> Gather(run[t])])
    /\ run' = [run EXCEPT ![t] = Empty]
    /\ iter' = [iter EXCEPT ![t] = NoIter]
    /\ UNCHANGED <<text_vars, platform, pool_size, jobs, obj, processing_dir, output_data, lock,
                   completed_jobs, calls>>

\* process_all_jobs: the RuntimeError leaves the "with" block, which waits
\* for the futures already submitted, and then the call
AllAbort(t) ==
    /\ pc[t].at = "pa_abort"
    /\ \A j \in DOMAIN run[t] : run[t][j].at = "done"
    /\ Raise(t, "process_all_jobs", "RuntimeError")
    /\ run' = [run EXCEPT ![t] = Empty]
    /\ iter' = [iter EXCEPT ![t] = NoIter]
    /\ UNCHANGED <<text_vars, platform, pool_size, jobs, obj, processing_dir, output_data, lock,
                   completed_jobs, calls>>

\* cleanup_completed_jobs: "with self.lock" entered
CleanupBegin(t) ==
    /\ Call(t, "cleanup_list", 0)
    /\ Acquire(t)
    /\ UNCHANGED <<text_vars, platform, pool_size, jobs, obj, processing_dir, output_data, iter,
                   completed_jobs, run>>

RECURSIVE Ascending(_)
Ascending(S) ==
    IF S = {} THEN <<>>
    ELSE LET m == CHOOSE x \in S : \A y \in S : x <= y
         IN  <<m>> \o Ascending(S \ {m})

\* cleanup_completed_jobs: the statuses it collects
CleanupStatuses == {"completed", "failed"}
\* cleanup_completed_jobs: the list comprehension over self.jobs.items()
CompletedJobs == Ascending({j \in jobs : obj[j].status \in CleanupStatuses})

\* cleanup_completed_jobs: completed_jobs computed, lock released
CleanupList(t) ==
    /\ pc[t].at = "cleanup_list"
    /\ completed_jobs' = [completed_jobs EXCEPT ![t] =
                            [todo |-> CompletedJobs, cleaned_count |-> 0]]
    /\ Release(t)
    /\ pc' = [pc EXCEPT ![t].at = "cleanup_loop"]
    /\ UNCHANGED <<text_vars, platform, pool_size, jobs, obj, processing_dir, output_data, iter, run,
                   ret, calls>>

\* cleanup_completed_jobs: job = self.jobs[job_id]; job.cleanup() (no lock
\* held). ProcessingJob.cleanup removes the work directory and the file
\* chat_<job_id>.txt of the output area, when they exist. A KeyError is
\* caught and the loop goes on.
CleanupJob(t) ==
    /\ pc[t].at = "cleanup_loop"
    /\ completed_jobs[t].todo # <<>>
    /\ LET j == Head(completed_jobs[t].todo) IN
       IF j \in jobs
       THEN /\ processing_dir' = processing_dir \ {obj[j].work_dir}
            /\ output_data' = Remove(output_data, CleanupTempFile(obj[j].job_id))
            /\ pc' = [pc EXCEPT ![t].at = "cleanup_del"]
            /\ UNCHANGED completed_jobs
       ELSE /\ completed_jobs' = [completed_jobs EXCEPT ![t].todo = Tail(@)]
            /\ UNCHANGED <<processing_dir, output_data, pc>>
    /\ UNCHANGED <<text_vars, platform, pool_size, jobs, obj, lock, iter, run, ret, calls>>

\* cleanup_completed_jobs: del self.jobs[job_id]; cleaned_count += 1 (no lock
\* held; a KeyError is caught before the count)
CleanupDel(t) ==
    /\ pc[t].at = "cleanup_del"
    /\ LET j == Head(completed_jobs[t].todo) IN
       /\ jobs' = jobs \ {j}
       /\ completed_jobs' = [completed_jobs EXCEPT
              ![t].todo = Tail(@),
              ![t].cleaned_count = IF j \in jobs THEN @ + 1 ELSE @]
    /\ pc' = [pc EXCEPT ![t].at = "cleanup_loop"]
    /\ UNCHANGED <<text_vars, platform, pool_size, obj, processing_dir, output_data, lock, iter, run,
                   ret, calls>>

\* cleanup_completed_jobs: return cleaned_count
CleanupReturn(t) ==
    /\ pc[t].at = "cleanup_loop"
    /\ completed_jobs[t].todo = <<>>
    /\ Return(t, "cleanup_completed_jobs", completed_jobs[t].cleaned_count)
    /\ completed_jobs' = [completed_jobs EXCEPT ![t] = NoCleanup]
    /\ UNCHANGED <<text_vars, platform, pool_size, jobs, obj, processing_dir, output_data, lock, iter,
                   run, calls>>

\* ---------------------------------------------------------- specifications
\* What one caller thread, and the executions it started, can do next.
ThreadStep(t) ==
    \/ SubmitBegin(t)
    \/ SubmitInsert(t)
    \/ \E job_id \in JobIds : StatusBegin(t, job_id)
    \/ StatusRead(t)
    \/ \E job_id \in JobIds : CancelBegin(t, job_id)
    \/ CancelCheck(t)
    \/ CancelSet(t)
    \/ \E job_id \in JobIds : SingleBegin(t, job_id)
    \/ SingleGet(t)
    \/ SingleReturn(t)
    \/ AllCheck(t)
    \/ AllSubmit(t)
    \/ AllSubmitted(t)
    \/ AllReturn(t)
    \/ CleanupBegin(t)
    \/ CleanupList(t)
    \/ CleanupJob(t)
    \/ CleanupDel(t)
    \/ CleanupReturn(t)
    \/ \E j \in JobIds : PreprocessBegin(t, j)
    \/ \E j \in JobIds : PreprocessEnd(t, j)
    \/ \E j \in JobIds : ProcessBegin(t, j)
    \/ \E j \in JobIds : ProcessEnd(t, j)
    \/ \E j \in JobIds : PostprocessBegin(t, j)
    \/ \E j \in JobIds : PostprocessEnd(t, j)

\* The coordinator driven from one thread (as app.py does); the pool's
\* workers run the jobs of a process_all_jobs call concurrently.
Next == ThreadStep("main")

Spec == Init /\ [][Next]_vars

\* The coordinator called from two threads at once.
NextMT ==
    \E t \in Threads :
        \/ ThreadStep(t)
        \/ AllIterChanged(t)
        \/ AllAbort(t)

SpecMT == Init /\ [][NextMT]_vars


\* ------------------------------------------------- the transcript as text
\* A line is a sequence of tokens: a token is a run of characters that the
\* code treats as a unit (a word, a message header, a line terminator, the
\* mention of an attached file).
Token(name, suffix) == [name |-> name, suffix |-> suffix]
Word(w) == Token(w, "")
LF == Word("\n")
CRLF == Word("\r\n")
Space == Word(" ")
\* The start of a message, up to and including ": ", as message_pattern of
\* parse_whatsapp_format wants it.
Hdr == Word("13/6/2025, 7:21 a.m. - Hermano: ")
Hola == Word("hola")

\* A filename_with_text made with the English words.
FilenameWithTextAttachedFile(audio_filename) == Token(audio_filename, " (attached file)")

\* insert_transcription: f"{audio_filename} (archivo adjunto)"
FilenameWithText(audio_filename) == Token(audio_filename, " (archivo adjunto)")

\* Voice notes of an export, named as WhatsApp names them.
AudioFilenames ==
    {"PTT-20250613-WA0020.opus", "PTT-20250613-WA0056.opus", "PTT-20250717-WA0056.opus"}
\* What a transcription comes back as: non-empty text.
Texts == {<<Word("que"), Space, Word("tal")>>}

\* Lines of a transcript, without their terminator: blank, continuation,
\* header without content, message, message mentioning a voice note (once,
\* twice), continuation mentioning a voice note.
MentionA == FilenameWithText("PTT-20250613-WA0020.opus")
MentionB == FilenameWithText("PTT-20250613-WA0056.opus")
MentionC == FilenameWithText("PTT-20250717-WA0056.opus")
MessageLines == {<<Hdr, Hola>>, <<Hdr, MentionA>>, <<Hdr, MentionB>>, <<Hdr, MentionC>>}
TextLines ==
    {<<>>, <<Hola>>, <<Hdr>>, <<Hdr, Hola>>, <<Hdr, MentionA>>,
     <<Hdr, MentionA, Space, MentionA>>, <<Hola, Space, MentionA>>}

\* Number of lines of a transcript.
MaxLines == 3

\* How the file ends its lines: "\n" throughout, "\n" but none after the last
\* line, or "\r\n" throughout.
NewlineStyles == {"lf", "lf_open", "crlf"}

SeqsUpTo(S, n) == UNION {[1..k -> S] : k \in 0..n}

\* The file holding the given lines.
FileOf(bodies, style) ==
    [i \in DOMAIN bodies |->
        bodies[i] \o (CASE style = "crlf" -> <<CRLF>>
                        [] style = "lf_open" /\ i = Len(bodies) -> <<>>
                        [] OTHER -> <<LF>>)]
\* A file never ends in an empty line without terminator.
Files(LineSet) ==
    {FileOf(bodies, style) : bodies \in SeqsUpTo(LineSet, MaxLines), style \in NewlineStyles}
        \ {f \in {FileOf(bodies, "lf_open") : bodies \in SeqsUpTo(LineSet, MaxLines)} :
              f # <<>> /\ f[Len(f)] = <<>>}

\* _load_text_file: open(path, "r").readlines(): universal newlines, every
\* terminator read as "\n"
ReadLine(line) ==
    IF line # <<>> /\ line[Len(line)] = CRLF
    THEN SubSeq(line, 1, Len(line) - 1) \o <<LF>>
    ELSE line
LoadTextFile(file) == [i \in DOMAIN file |-> ReadLine(file[i])]

\* _save_text_file: open(path, "w").writelines(self.lines): "\n" is written as
\* os.linesep
RECURSIVE WriteLine(_)
WriteLine(line) ==
    IF line = <<>> THEN <<>>
    ELSE (IF Head(line) = LF /\ platform = "nt" THEN <<CRLF>> ELSE <<Head(line)>>)
         \o WriteLine(Tail(line))
SaveTextFile(ls) == [i \in DOMAIN ls |-> WriteLine(ls[i])]

\* "x in line"
Contains(line, tok) == \E k \in DOMAIN line : line[k] = tok

\* str.replace(old, new): every occurrence, left to right
RECURSIVE Replace(_, _, _)
Replace(line, old, new) ==
    IF line = <<>> THEN <<>>
    ELSE (IF Head(line) = old THEN new ELSE <<Head(line)>>)
         \o Replace(Tail(line), old, new)

\* An insert_transcription that replaces the mention in every line holding it.
InsertTranscriptionEveryLine(ls, transcription_text, audio_filename) ==
    LET filename_with_text == FilenameWithText(audio_filename)
    IN  [ret |-> \E i \in DOMAIN ls : Contains(ls[i], filename_with_text),
         lines |-> [i \in DOMAIN ls |->
                      Replace(ls[i], filename_with_text, transcription_text)]]

\* insert_transcription: what it returns and what it leaves in self.lines;
\* the file is saved when a line was replaced.
InsertTranscription(ls, transcription_text, audio_filename) ==
    IF audio_filename = None
    THEN [ret |-> FALSE, lines |-> ls]
    ELSE LET filename_with_text == FilenameWithText(audio_filename)
             found == {i \in DOMAIN ls : Contains(ls[i], filename_with_text)}
         IN  IF found = {}
             THEN [ret |-> FALSE, lines |-> ls]
             ELSE LET i == CHOOSE k \in found : \A m \in found : k <= m
                  IN  [ret |-> TRUE,
                       lines |-> [ls EXCEPT ![i] =
                                    Replace(ls[i], filename_with_text, transcription_text)]]


\* str.strip(): leading and trailing white space, line terminators included
WhiteSpace == {LF, CRLF, Space}
RECURSIVE LStrip(_)
LStrip(line) ==
    IF line # <<>> /\ Head(line) \in WhiteSpace THEN LStrip(Tail(line)) ELSE line
RECURSIVE RStrip(_)
RStrip(line) ==
    IF line # <<>> /\ line[Len(line)] \in WhiteSpace
    THEN RStrip(SubSeq(line, 1, Len(line) - 1))
    ELSE line
Strip(line) == RStrip(LStrip(line))

\* parse_whatsapp_format: message_pattern.match(line): date, time, a.m./p.m.,
\* sender and ": " followed by at least one character of content
MessagePattern(line) == Len(line) >= 2 /\ Head(line) = Hdr

\* parse_whatsapp_format: current_message = {} before the first message
NoMessage == [content |-> <<>>, line_number |-> 0, original_line |-> <<>>]

\* parse_whatsapp_format: the loop over self.lines from line i on, and the
\* append of the last message after it
RECURSIVE ParseFrom(_, _, _, _)
ParseFrom(ls, i, messages, current_message) ==
    LET flushed == IF current_message # NoMessage
                   THEN Append(messages, current_message)
                   ELSE messages
    IN  IF i > Len(ls) THEN flushed
        ELSE LET line == Strip(ls[i]) IN
             IF line = <<>> THEN ParseFrom(ls, i + 1, messages, current_message)
             ELSE IF MessagePattern(line)
             THEN ParseFrom(ls, i + 1, flushed,
                            [content |-> Tail(line), line_number |-> i,
                             original_line |-> line])
             ELSE ParseFrom(ls, i + 1, messages,
                            IF current_message # NoMessage
                            THEN [current_message EXCEPT
                                    !.content = @ \o <<Space>> \o line]
                            ELSE current_message)
\* parse_whatsapp_format taking every non-empty line for a message of its own
ParseEveryLine(ls) ==
    SelectSeq([i \in DOMAIN ls |->
                  [content |-> IF MessagePattern(Strip(ls[i])) THEN Tail(Strip(ls[i]))
                               ELSE Strip(ls[i]),
                   line_number |-> i,
                   original_line |-> Strip(ls[i])]],
              LAMBDA m : m.original_line # <<>>)
ParseWhatsappFormat(ls) == ParseFrom(ls, 1, <<>>, NoMessage)

\* get_message_count
GetMessageCount(ls) == Len(ParseWhatsappFormat(ls))

\* A WhatsAppTextProcessor constructed on a transcript (the file is loaded),
\* and the arguments insert_transcription will be called with: the name of a
\* voice note, or none as process_images_for_text_file calls it.
InitText ==
    /\ platform \in Platforms
    /\ pool_size = max_workers
    /\ InitJobs
    /\ text_file \in Files(TextLines)
    /\ lines = LoadTextFile(text_file)
    /\ args \in [transcription_text : Texts,
                 audio_filename : {"PTT-20250613-WA0020.opus", None}]

\* Number of calls on a text processor.
MaxTextCalls == 2

\* A call on the text processor starts (at most MaxTextCalls in a behaviour).
TextCall ==
    /\ calls < MaxTextCalls
    /\ calls' = calls + 1

\* insert_transcription(args.transcription_text, ..., args.audio_filename)
CallInsertTranscription ==
    /\ TextCall
    /\ LET r == InsertTranscription(lines, args.transcription_text, args.audio_filename)
       IN  /\ lines' = r.lines
           /\ text_file' = IF r.ret THEN SaveTextFile(r.lines) ELSE text_file
           /\ Return("main", "insert_transcription", r.ret)
    /\ UNCHANGED <<args, platform, job_vars>>

\* parse_whatsapp_format()
CallParseWhatsappFormat ==
    /\ TextCall
    /\ Return("main", "parse_whatsapp_format", ParseWhatsappFormat(lines))
    /\ UNCHANGED <<text_vars, platform, job_vars>>

\* get_message_count()
CallGetMessageCount ==
    /\ TextCall
    /\ Return("main", "get_message_count", GetMessageCount(lines))
    /\ UNCHANGED <<text_vars, platform, job_vars>>

NextText ==
    \/ CallInsertTranscription
    \/ CallParseWhatsappFormat
    \/ CallGetMessageCount

SpecText == InitText /\ [][NextText]_vars


\* ------------------------------------------- the conversation processor
\* TimestampParser.extract_timestamp: the date of a PTT-YYYYMMDD-WAXXXX name,
\* as the number YYYYMMDD; 0 stands for None.
ExtractTimestamp(filename) ==
    CASE filename = "PTT-20250613-WA0020.opus" -> 20250613
      [] filename = "PTT-20250613-WA0056.opus" -> 20250613
      [] filename = "PTT-20250717-WA0056.opus" -> 20250717
      [] OTHER -> 0

\* ImageProcessor.extract_timestamp_from_filename, likewise.
ExtractTimestampFromFilename(filename) ==
    CASE filename = "IMG-20250613-WA0001.jpg" -> 20250613
      [] filename = "IMG-20250717-WA0002.jpg" -> 20250717
      [] OTHER -> 0

ImageFilenames == {"IMG-20250613-WA0001.jpg", "foto.jpg"}
MentionImg == FilenameWithText("IMG-20250613-WA0001.jpg")

\* What transcribe_audio returns for a voice note: a payload with "error", a
\* payload whose text is empty, or one with text; "absent" is a voice note
\* that is not in the directory.
Outcomes == {"absent", "error", "empty", "text"}
\* The text a voice note is transcribed to.
TextOf(filename) == <<Word("dice"), Space, Token(filename, " transcrito")>>

\* Orders in which Path.iterdir may list the directory.
Listings ==
    {<<"PTT-20250613-WA0020.opus", "PTT-20250613-WA0056.opus", "PTT-20250717-WA0056.opus">>,
     <<"PTT-20250717-WA0056.opus", "PTT-20250613-WA0056.opus", "PTT-20250613-WA0020.opus">>}

\* An export: messages of this conversation, in order, MaxLines of them at most.
Conversation ==
    <<<<Hdr, Hola>>, <<Hdr, MentionA>>, <<Hdr, MentionB>>, <<Hdr, MentionC>>,
      <<Hdr, MentionImg>>>>
RECURSIVE Pick(_, _)
Pick(seq, keep) ==
    IF seq = <<>> THEN <<>>
    ELSE (IF Len(seq) \in keep THEN <<seq[Len(seq)]>> ELSE <<>>)
         \o Pick(SubSeq(seq, 1, Len(seq) - 1), keep)
Reverse(seq) == [i \in DOMAIN seq |-> seq[Len(seq) + 1 - i]]
Exports ==
    {Reverse(Pick(Conversation, keep)) :
        keep \in {K \in SUBSET DOMAIN Conversation : Cardinality(K) <= MaxLines}}
MediaFiles == {FileOf(bodies, style) : bodies \in Exports, style \in NewlineStyles}

\* list.sort(key=timestamp): stable
RECURSIVE SortByTimestamp(_)
SortByTimestamp(files) ==
    IF files = <<>> THEN <<>>
    ELSE LET f == files[Len(files)]
             sorted == SortByTimestamp(SubSeq(files, 1, Len(files) - 1))
         IN  SelectSeq(sorted, LAMBDA g : ExtractTimestamp(g) <= ExtractTimestamp(f))
             \o <<f>>
             \o SelectSeq(sorted, LAMBDA g : ExtractTimestamp(g) > ExtractTimestamp(f))

\* Path(filename).suffix of the file names of the model, and str.lower() of
\* these suffixes.
Suffix(filename) ==
    CASE filename \in {"PTT-20250613-WA0020.opus", "PTT-20250613-WA0056.opus",
                       "PTT-20250717-WA0056.opus", "AUD-20250613-WA0001.opus"} -> ".opus"
      [] filename \in {"IMG-20250613-WA0001.jpg", "IMG-20250717-WA0002.jpg", "foto.jpg"} -> ".jpg"
      [] filename = "FOTO.JPG" -> ".JPG"
      [] filename = "chat.txt" -> ".txt"
      [] OTHER -> ""
Lower(suffix) == IF suffix = ".JPG" THEN ".jpg" ELSE suffix
\* TimestampParser.is_audio_file
IsAudioFile(filename) == Lower(Suffix(filename)) = ".opus"
\* ImageProcessor.supported_formats, and the test of get_image_files
SupportedFormats == {".jpg", ".jpeg", ".png", ".gif", ".bmp", ".webp"}
IsImageFile(filename) == Lower(Suffix(filename)) \in SupportedFormats

\* TimestampParser.get_audio_files_with_timestamps: the .opus files of the
\* directory whose name yields a timestamp, sorted by it
GetAudioFilesWithTimestamps(a) ==
    IF ~a.exists THEN <<>>
    ELSE SortByTimestamp(SelectSeq(a.iterdir,
             LAMBDA f : /\ a.transcriptions[f] # "absent"
                        /\ IsAudioFile(f)
                        /\ ExtractTimestamp(f) > 0))

\* insert_multiple_transcriptions: the transcriptions in timestamp order, each
\* through insert_transcription; the count of those that returned true
RECURSIVE InsertEach(_, _)
InsertEach(ls, filenames) ==
    IF filenames = <<>> THEN [success_count |-> 0, lines |-> ls]
    ELSE LET f == Head(filenames)
             r == InsertTranscription(ls, TextOf(f), f)
             rest == InsertEach(r.lines, Tail(filenames))
         IN  [success_count |-> rest.success_count + (IF r.ret THEN 1 ELSE 0),
              lines |-> rest.lines]
InsertMultipleTranscriptions(ls, filenames) == InsertEach(ls, SortByTimestamp(filenames))

NoAudio == [success |-> FALSE, message |-> "No se encontraron archivos de audio"]
NoTranscriptions ==
    [success |-> FALSE, message |-> "Error en el procesamiento de transcripciones"]

\* process_audio_files, once the directory was listed: its result and what it
\* leaves in the text processor's lines
ProcessAudioFiles(ls, a) ==
    LET audio_files_with_timestamps == GetAudioFilesWithTimestamps(a)
        transcriptions_to_insert ==
            SelectSeq(audio_files_with_timestamps,
                      LAMBDA f : a.transcriptions[f] = "text")
        inserted == InsertMultipleTranscriptions(ls, transcriptions_to_insert)
    IN  IF audio_files_with_timestamps = <<>>
        THEN [result |-> NoAudio, lines |-> ls]
        ELSE IF transcriptions_to_insert = <<>>
        THEN [result |-> NoTranscriptions, lines |-> ls]
        ELSE [result |->
                [success |-> TRUE,
                 total_audio_files |-> Len(audio_files_with_timestamps),
                 successful_transcriptions |-> Len(transcriptions_to_insert),
                 inserted_transcriptions |-> inserted.success_count],
              lines |-> inserted.lines]


\* process_images_for_text_file: f"[Imagen: {image_path.name}]"
ImageReference(filename) == <<Word("[Imagen: "), Word(filename), Word("]")>>

\* process_images_for_text_file: every image with a timestamp goes through
\* insert_transcription(reference, timestamp, "Imagen"), which is given no
\* audio_filename; the count of the calls that returned true
RECURSIVE ProcessImagesForTextFile(_, _)
ProcessImagesForTextFile(ls, images) ==
    IF images = {} THEN [processed_count |-> 0, lines |-> ls]
    ELSE LET f == CHOOSE x \in images : TRUE
             r == IF ExtractTimestampFromFilename(f) > 0
                  THEN InsertTranscription(ls, ImageReference(f), None)
                  ELSE [ret |-> FALSE, lines |-> ls]
             rest == ProcessImagesForTextFile(r.lines, images \ {f})
         IN  [processed_count |-> rest.processed_count + (IF r.ret THEN 1 ELSE 0),
              lines |-> rest.lines]

\* process_image_files reporting success only if an image was inserted
ProcessImageFilesInserted(ls, a) ==
    IF a.oserror = "images"
    THEN [result |-> [success |-> FALSE, message |-> "Error: OSError"], lines |-> ls]
    ELSE LET r == ProcessImagesForTextFile(ls, a.images)
         IN  [result |-> [success |-> r.processed_count > 0,
                          processed_images |-> r.processed_count],
              lines |-> r.lines]

\* process_image_files: the result and the lines; an exception while the
\* directory is listed is caught and reported
ProcessImageFiles(ls, a) ==
    IF a.oserror = "images"
    THEN [result |-> [success |-> FALSE, message |-> "Error: OSError"], lines |-> ls]
    ELSE LET r == ProcessImagesForTextFile(ls, a.images)
         IN  [result |-> [success |-> TRUE, processed_images |-> r.processed_count],
              lines |-> r.lines]

\* process_all with "and" in place of "or" in the combined success
ProcessAllBoth(audio_result, image_result) ==
    [success |-> audio_result.success /\ image_result.success,
     audio_processing |-> audio_result,
     image_processing |-> image_result]

\* process_all: the combined result
ProcessAll(audio_result, image_result) ==
    [success |-> audio_result.success \/ image_result.success,
     audio_processing |-> audio_result,
     image_processing |-> image_result]

\* A ConversationProcessor constructed on a job's media directory and
\* transcript. args is what the calls will meet: the directory as iterdir
\* lists it, each voice note's transcription, the images, and whether listing
\* the directory raises (for the voice notes, for the images).
InitMedia ==
    /\ platform \in Platforms
    /\ pool_size = max_workers
    /\ InitJobs
    /\ text_file \in MediaFiles
    /\ lines = LoadTextFile(text_file)
    /\ args \in [exists : {TRUE},
                 iterdir : Listings,
                 transcriptions : [AudioFilenames -> Outcomes],
                 images : SUBSET ImageFilenames,
                 oserror : {"none", "audio", "images"}]

\* The processor is used once.
MediaCall ==
    /\ calls = 0
    /\ calls' = 1

\* The file after the calls of insert_transcription: saved if a line changed.
Saved(ls) == IF ls # lines THEN SaveTextFile(ls) ELSE text_file

\* process_audio_files(): listing the directory is outside its try block
CallProcessAudioFiles ==
    /\ MediaCall
    /\ IF args.oserror = "audio"
       THEN /\ Raise("main", "process_audio_files", "OSError")
            /\ UNCHANGED <<lines, text_file>>
       ELSE LET r == ProcessAudioFiles(lines, args)
            IN  /\ lines' = r.lines
                /\ text_file' = Saved(r.lines)
                /\ Return("main", "process_audio_files", r.result)
    /\ UNCHANGED <<args, platform, job_vars>>

\* process_image_files()
CallProcessImageFiles ==
    /\ MediaCall
    /\ LET r == ProcessImageFiles(lines, args)
       IN  /\ lines' = r.lines
           /\ text_file' = Saved(r.lines)
           /\ Return("main", "process_image_files", r.result)
    /\ UNCHANGED <<args, platform, job_vars>>

\* process_all(): backup (a failure is logged), voice notes, images, result
CallProcessAll ==
    /\ MediaCall
    /\ IF args.oserror = "audio"
       THEN /\ Raise("main", "process_all", "OSError")
            /\ UNCHANGED <<lines, text_file>>
       ELSE LET audio == ProcessAudioFiles(lines, args)
                image == ProcessImageFiles(audio.lines, args)
            IN  /\ lines' = image.lines
                /\ text_file' = Saved(image.lines)
                /\ Return("main", "process_all", ProcessAll(audio.result, image.result))
    /\ UNCHANGED <<args, platform, job_vars>>

NextMedia ==
    \/ CallProcessAudioFiles
    \/ CallProcessImageFiles
    \/ CallProcessAll

SpecMedia == InitMedia /\ [][NextMedia]_vars


\* --------------------------------------------- the timestamp of a header
\* Strings of digits and separators are sequences of characters.
DigitChars == <<"0", "1", "2", "3", "4", "5", "6", "7", "8", "9">>
\* str(n) for a natural number
RECURSIVE Dec(_)
Dec(n) == IF n < 10 THEN <<DigitChars[n + 1]>> ELSE Dec(n \div 10) \o <<DigitChars[(n % 10) + 1]>>
\* The groups of message_pattern as WhatsApp writes them: D/M/YYYY and H:MM
DateStr(day, month, year) == Dec(day) \o <<"/">> \o Dec(month) \o <<"/">> \o Dec(year)
TimeStr(hour, minute) ==
    Dec(hour) \o <<":">> \o (IF minute < 10 THEN <<"0">> ELSE <<>>) \o Dec(minute)

\* str.split(sep)
RECURSIVE Split(_, _)
Split(str, sep) ==
    IF \A k \in DOMAIN str : str[k] # sep THEN <<str>>
    ELSE LET k == CHOOSE i \in DOMAIN str : str[i] = sep /\ \A m \in 1..(i - 1) : str[m] # sep
         IN  <<SubSeq(str, 1, k - 1)>> \o Split(SubSeq(str, k + 1, Len(str)), sep)
\* int(s) for a string of digits
DigitValue(c) == (CHOOSE k \in DOMAIN DigitChars : DigitChars[k] = c) - 1
RECURSIVE ToInt(_)
ToInt(s) ==
    IF Len(s) = 1 THEN DigitValue(s[1])
    ELSE 10 * ToInt(SubSeq(s, 1, Len(s) - 1)) + DigitValue(s[Len(s)])

\* datetime(year, month, day, hour, minute): the arguments it accepts
DaysInMonth(year, month) ==
    IF month = 2
    THEN (IF year % 4 = 0 /\ (year % 100 # 0 \/ year % 400 = 0) THEN 29 ELSE 28)
    ELSE IF month \in {4, 6, 9, 11} THEN 30 ELSE 31
ValidDatetime(year, month, day, hour, minute) ==
    /\ year \in 1..9999
    /\ month \in 1..12
    /\ day \in 1..DaysInMonth(year, month)
    /\ hour \in 0..23
    /\ minute \in 0..59
\* datetime.now(), returned when the header's numbers make no datetime
Now == [clock |-> "now"]

\* _parse_whatsapp_timestamp adding 12 to every p.m. hour
ParseWhatsappTimestampAdd12(date_str, time_str, am_pm) ==
    LET date_parts == Split(date_str, "/")
        day == ToInt(date_parts[1])
        month == ToInt(date_parts[2])
        year == ToInt(date_parts[3])
        time_parts == Split(time_str, ":")
        hour == ToInt(time_parts[1])
        minute == ToInt(time_parts[2])
        hour24 == IF am_pm = "p.m." THEN hour + 12
                  ELSE IF am_pm = "a.m." /\ hour = 12 THEN 0
                  ELSE hour
    IN  IF ValidDatetime(year, month, day, hour24, minute)
        THEN [year |-> year, month |-> month, day |-> day, hour |-> hour24, minute |-> minute]
        ELSE Now

\* _parse_whatsapp_timestamp
ParseWhatsappTimestamp(date_str, time_str, am_pm) ==
    LET date_parts == Split(date_str, "/")
        day == ToInt(date_parts[1])
        month == ToInt(date_parts[2])
        year == ToInt(date_parts[3])
        time_parts == Split(time_str, ":")
        hour == ToInt(time_parts[1])
        minute == ToInt(time_parts[2])
        hour24 == IF am_pm = "p.m." /\ hour # 12 THEN hour + 12
                  ELSE IF am_pm = "a.m." /\ hour = 12 THEN 0
                  ELSE hour
    IN  IF ValidDatetime(year, month, day, hour24, minute)
        THEN [year |-> year, month |-> month, day |-> day, hour |-> hour24, minute |-> minute]
        ELSE Now

\* Headers: the numbers WhatsApp wrote into the date and the time of a
\* message header (hours 0 and 13 and day 31 of a short month are there to
\* show what is outside the 12-hour clock and the calendar).
HeaderDays == {12, 13, 29, 31}
HeaderMonths == {2, 6, 12}
HeaderYears == {2024, 2025}
HeaderHours == 0..13
HeaderMinutes == 0..59
AmPm == {"a.m.", "p.m."}

\* A text processor about to parse the timestamp of one header.
InitTime ==
    /\ platform \in Platforms
    /\ pool_size = max_workers
    /\ InitJobs
    /\ text_file = <<>>
    /\ lines = <<>>
    /\ args \in [day : HeaderDays, month : HeaderMonths, year : HeaderYears,
                 hour : HeaderHours, minute : HeaderMinutes, am_pm : AmPm]

\* _parse_whatsapp_timestamp(date_str, time_str, am_pm), with the groups of
\* the header that holds these numbers
CallParseWhatsappTimestamp ==
    /\ calls = 0
    /\ calls' = 1
    /\ Return("main", "_parse_whatsapp_timestamp",
              ParseWhatsappTimestamp(DateStr(args.day, args.month, args.year),
                                     TimeStr(args.hour, args.minute), args.am_pm))
    /\ UNCHANGED <<text_vars, platform, job_vars>>

NextTime == CallParseWhatsappTimestamp

SpecTime == InitTime /\ [][NextTime]_vars


\* ------------------------------------------------------------------
\* The coordinator some time after construction: archives have been
\* submitted and nothing has been run yet (what SubmitBegin and SubmitInsert
\* leave behind); calls counts the calls from then on.

Submitted ==
    {s \in SeqsUpTo(ZipNames \X ArchiveKinds, MaxJobs) : s # <<>>}

InitSubmitted ==
    /\ platform \in Platforms
    /\ pool_size = max_workers
    /\ \E s \in Submitted :
        /\ obj = [job_id \in DOMAIN s |-> NewJob(job_id, s[job_id][1], s[job_id][2])]
        /\ jobs = DOMAIN s
    /\ processing_dir = {}
    /\ output_data = Empty
    /\ lock = NoThread
    /\ pc = [t \in Threads |-> Idle]
    /\ iter = [t \in Threads |-> NoIter]
    /\ completed_jobs = [t \in Threads |-> NoCleanup]
    /\ run = [t \in Threads |-> Empty]
    /\ ret = [t \in Threads |-> NoRet]
    /\ calls = 0
    /\ text_file = <<>>
    /\ lines = <<>>
    /\ args = NoArgs

SpecSubmitted == InitSubmitted /\ [][Next]_vars


\* ------------------------------------------------------------------
\* A job's execution and get_status statement by statement: the worker
\* thread assigns the fields of the job one at a time and holds no lock;
\* get_status, called under the coordinator's lock, reads them one at a
\* time while it builds the dict.

\* The field a statement assigns, by the position before it.
FieldAt(at) ==
    CASE at = "queued" -> "start_time"
      [] at \in {"pre_status", "pre_failed", "proc_status", "proc_failed",
                 "post_status", "post_completed", "post_failed"} -> "status"
      [] at \in {"pre_progress", "pre_done", "proc_progress", "proc_validate",
                 "proc_done", "post_progress", "post_done"} -> "progress"
      [] at \in {"pre_error", "proc_error", "post_error"} -> "error"
      [] at = "proc_result" -> "result"
      [] at = "post_end_time" -> "end_time"

\* The value it assigns; process_result is the result of process_audio_files.
ValueAt(at, process_result) ==
    CASE at \in {"queued", "post_end_time"} -> Clock
      [] at = "pre_status" -> "preprocessing"
      [] at = "pre_progress" -> ProgressPreStart
      [] at = "pre_done" -> ProgressPreDone
      [] at = "proc_status" -> "processing"
      [] at = "proc_progress" -> ProgressProcStart
      [] at = "proc_validate" -> ProgressProcValidate
      [] at = "proc_done" -> ProgressProcDone
      [] at = "proc_result" -> process_result
      [] at = "post_status" -> "postprocessing"
      [] at = "post_progress" -> ProgressPostStart
      [] at = "post_done" -> ProgressDone
      [] at = "post_completed" -> "completed"
      [] at \in {"pre_failed", "proc_failed", "post_failed"} -> "failed"
      [] at = "pre_error" -> ErrorPreprocess
      [] at = "proc_error" -> ErrorProcess
      [] at = "post_error" -> ErrorPostprocess

\* The position after an assignment that is not the last of the execution.
NextAt(at) ==
    CASE at = "queued" -> "pre_status"
      [] at = "pre_status" -> "pre_progress"
      [] at = "pre_progress" -> "pre_call"
      [] at = "pre_done" -> "proc_status"
      [] at = "pre_failed" -> "pre_error"
      [] at = "proc_status" -> "proc_progress"
      [] at = "proc_progress" -> "proc_validate"
      [] at = "proc_validate" -> "proc_call"
      [] at = "proc_done" -> "proc_result"
      [] at = "proc_failed" -> "proc_error"
      [] at = "post_status" -> "post_progress"
      [] at = "post_progress" -> "post_call"
      [] at = "post_done" -> "post_completed"
      [] at = "post_completed" -> "post_end_time"
      [] at = "post_failed" -> "post_error"

Assignments == {"queued", "pre_status", "pre_progress", "pre_done", "pre_failed", "proc_status",
                "proc_progress", "proc_validate", "proc_done", "proc_failed", "post_status",
                "post_progress", "post_done", "post_completed", "post_failed"}

\* One assignment to a field of the job: self.<field> = <value>
Assign(t, j) ==
    /\ At(t, j) \in Assignments
    /\ At(t, j) = "queued" => CanStart(t, j)
    /\ obj' = [obj EXCEPT ![j][FieldAt(At(t, j))] = ValueAt(At(t, j), None)]
    /\ Goto(t, j, NextAt(At(t, j)))
    /\ UNCHANGED <<text_vars, platform, pool_size, jobs, processing_dir, output_data, lock, pc, iter,
                   completed_jobs, ret, calls>>

\* preprocess(): main.preprocess_single_zip runs and returns
PreprocessCall(t, j) ==
    /\ At(t, j) = "pre_call"
    /\ \E success \in PreprocessSingleZip(j) :
        /\ processing_dir' = processing_dir \cup {obj[j].work_dir}
        /\ output_data' =
              IF success
              THEN Put(output_data, TempOutputPath(obj[j].zip_name, obj[j].work_dir), j)
              ELSE output_data
        /\ Goto(t, j, IF success THEN "pre_done" ELSE "pre_failed")
    /\ UNCHANGED <<text_vars, platform, pool_size, jobs, obj, lock, pc, iter, completed_jobs, ret,
                   calls>>

\* process(): validate_inputs and process_audio_files run and return
ProcessCall(t, j) ==
    /\ At(t, j) = "proc_call"
    /\ IF ~ValidateInputs(j)
       THEN Goto(t, j, "proc_failed")
       ELSE \E transcribed \in BOOLEAN :
               run' = [run EXCEPT ![t][j] = [at |-> "proc_done",
                                             result |-> [success |-> transcribed]]]
    /\ UNCHANGED <<text_vars, platform, pool_size, jobs, obj, processing_dir, output_data, lock, pc,
                   iter, completed_jobs, ret, calls>>

\* process(): self.result = result, the return, and what
\* run_complete_processing does with the result
ProcessReturn(t, j) ==
    /\ At(t, j) = "proc_result"
    /\ obj' = [obj EXCEPT ![j].result = ValueAt("proc_result", run[t][j].result)]
    /\ IF ProcessSucceeded(run[t][j].result)
       THEN run' = [run EXCEPT ![t][j] = [at |-> "post_status", result |-> None]]
       ELSE Finish(t, j, RunFailure(j, ProcessFailureError(obj[j].error)))
    /\ UNCHANGED <<text_vars, platform, pool_size, jobs, processing_dir, output_data, lock, pc, iter,
                   completed_jobs, ret, calls>>

\* postprocess(): main.postprocess_single_zip runs and returns
PostprocessCall(t, j) ==
    /\ At(t, j) = "post_call"
    /\ IF PostprocessSingleZip(j)
       THEN /\ output_data' =
                  Rename(output_data, TempOutputPath(obj[j].zip_name, obj[j].work_dir),
                         obj[j].final_output_path)
            /\ Goto(t, j, "post_done")
       ELSE /\ output_data' = output_data
            /\ Goto(t, j, "post_failed")
    /\ UNCHANGED <<text_vars, platform, pool_size, jobs, obj, processing_dir, lock, pc, iter,
                   completed_jobs, ret, calls>>

\* The last assignment of an execution and the return of
\* run_complete_processing
LastAssignment(t, j) ==
    /\ At(t, j) \in {"pre_error", "proc_error", "post_error", "post_end_time"}
    /\ obj' = [obj EXCEPT ![j][FieldAt(At(t, j))] = ValueAt(At(t, j), None)]
    /\ Finish(t, j, IF At(t, j) = "post_end_time" THEN RunSuccess(j)
                    ELSE RunFailure(j, ValueAt(At(t, j), None)))
    /\ UNCHANGED <<text_vars, platform, pool_size, jobs, processing_dir, output_data, lock, pc, iter,
                   completed_jobs, ret, calls>>

\* The keys of the dict of get_status, in the order they are evaluated.
StatusKeys ==
    <<"job_id", "zip_name", "status", "progress", "error", "result", "start_time", "end_time",
      "final_output_path">>

\* get_job_status: job = self.jobs.get(job_id); None for an unknown id
StatusGet(t) ==
    /\ pc[t].at = "status"
    /\ IF pc[t].job_id \in jobs
       THEN /\ pc' = [pc EXCEPT ![t] = [at |-> "get_status", job_id |-> pc[t].job_id,
                                         read |-> <<>>]]
            /\ UNCHANGED <<lock, ret>>
       ELSE /\ Return(t, "get_job_status", None)
            /\ Release(t)
    /\ UNCHANGED <<text_vars, platform, pool_size, jobs, obj, processing_dir, output_data, iter,
                   completed_jobs, run, calls>>

\* get_status: the next value of the dict is evaluated
StatusReadField(t) ==
    /\ pc[t].at = "get_status"
    /\ Len(pc[t].read) < Len(StatusKeys)
    /\ pc' = [pc EXCEPT ![t].read =
                Append(@, GetStatus(pc[t].job_id)[StatusKeys[Len(@) + 1]])]
    /\ UNCHANGED <<text_vars, platform, pool_size, jobs, obj, processing_dir, output_data, lock,
                   iter, completed_jobs, run, ret, calls>>

\* get_status returns the dict; get_job_status releases the lock and returns it
StatusReturn(t) ==
    /\ pc[t].at = "get_status"
    /\ Len(pc[t].read) = Len(StatusKeys)
    /\ LET read == pc[t].read
       IN  Return(t, "get_job_status",
                  [job_id |-> read[1], zip_name |-> read[2], status |-> read[3],
                   progress |-> read[4], error |-> read[5], result |-> read[6],
                   start_time |-> read[7], end_time |-> read[8],
                   final_output_path |-> read[9]])
    /\ Release(t)
    /\ UNCHANGED <<text_vars, platform, pool_size, jobs, obj, processing_dir, output_data, iter,
                   completed_jobs, run, calls>>

\* One job has been submitted.
InitSnapshot == InitSubmitted /\ Len(obj) = 1

\* process_single_job called from one thread
Worker(t) ==
    \/ \E job_id \in JobIds : SingleBegin(t, job_id)
    \/ SingleGet(t)
    \/ SingleReturn(t)
    \/ \E j \in JobIds : Assign(t, j)
    \/ \E j \in JobIds : PreprocessCall(t, j)
    \/ \E j \in JobIds : ProcessCall(t, j)
    \/ \E j \in JobIds : ProcessReturn(t, j)
    \/ \E j \in JobIds : PostprocessCall(t, j)
    \/ \E j \in JobIds : LastAssignment(t, j)

\* get_job_status called from another
Reader(t) ==
    \/ \E job_id \in JobIds : StatusBegin(t, job_id)
    \/ StatusGet(t)
    \/ StatusReadField(t)
    \/ StatusReturn(t)

NextSnapshot == Worker("main") \/ Reader("other")

SpecSnapshot == InitSnapshot /\ [][NextSnapshot]_vars


\* ------------------------------------------------------------------
\* Enumeration of the attachments of a directory
\* (src/src/timestamp_parser.py, src/src/image_processor.py).
\* A directory is the sequence of the names iterdir() yields; no name
\* occurs twice in a directory.

MaxFiles == 4

DirNames ==
    AudioFilenames
    \cup {"AUD-20250613-WA0001.opus", "IMG-20250613-WA0001.jpg", "IMG-20250717-WA0002.jpg",
          "foto.jpg", "FOTO.JPG", "chat.txt"}

Directories ==
    {d \in SeqsUpTo(DirNames, MaxFiles) : \A i, k \in DOMAIN d : i # k => d[i] # d[k]}

\* datetime.max, the sort key of an image without a timestamp
DatetimeMax == 99991231

ImageSortKey(filename) ==
    IF ExtractTimestampFromFilename(filename) = 0 THEN DatetimeMax
    ELSE ExtractTimestampFromFilename(filename)

\* list.sort(key=lambda x: x[1] or datetime.max): stable
RECURSIVE SortImages(_)
SortImages(files) ==
    IF files = <<>> THEN <<>>
    ELSE LET f == files[Len(files)]
             sorted == SortImages(SubSeq(files, 1, Len(files) - 1))
         IN  SelectSeq(sorted, LAMBDA g : ImageSortKey(g) <= ImageSortKey(f))
             \o <<f>>
             \o SelectSeq(sorted, LAMBDA g : ImageSortKey(g) > ImageSortKey(f))

\* ImageProcessor.get_image_files
GetImageFiles(a) ==
    IF ~a.exists THEN <<>>
    ELSE SelectSeq(a.iterdir, IsImageFile)

\* ImageProcessor.get_images_with_timestamps: every image, the ones without
\* a timestamp last
GetImagesWithTimestamps(a) == SortImages(GetImageFiles(a))

\* A directory that is absent has no entries; every entry of a directory
\* that exists is a regular file.
InitListing ==
    /\ platform \in Platforms
    /\ pool_size = max_workers
    /\ InitJobs
    /\ text_file = <<>>
    /\ lines = <<>>
    /\ args \in [exists : {TRUE}, iterdir : Directories,
                 transcriptions : {[f \in DirNames |-> "text"]}]
            \cup [exists : {FALSE}, iterdir : {<<>>},
                  transcriptions : {[f \in DirNames |-> "text"]}]

CallGetAudioFilesWithTimestamps ==
    /\ calls = 0
    /\ calls' = 1
    /\ Return("main", "get_audio_files_with_timestamps", GetAudioFilesWithTimestamps(args))
    /\ UNCHANGED <<text_vars, platform, job_vars>>

CallGetImagesWithTimestamps ==
    /\ calls = 0
    /\ calls' = 1
    /\ Return("main", "get_images_with_timestamps", GetImagesWithTimestamps(args))
    /\ UNCHANGED <<text_vars, platform, job_vars>>

NextListing == CallGetAudioFilesWithTimestamps \/ CallGetImagesWithTimestamps

SpecListing == InitListing /\ [][NextListing]_vars


\* ------------------------------------------------------------------
\* Transcripts by the language of the export: WhatsApp writes the mention
\* of an attachment as "<filename> (archivo adjunto)" in a Spanish export
\* and as "<filename> (attached file)" in an English one.

ArchivoAdjunto(filename) == Token(filename, " (archivo adjunto)")
AttachedFile(filename) == Token(filename, " (attached file)")

MentionLines ==
    {<<Hdr, Hola>>,
     <<Hdr, ArchivoAdjunto("PTT-20250613-WA0020.opus")>>,
     <<Hdr, AttachedFile("PTT-20250613-WA0020.opus")>>}

InitMention ==
    /\ platform \in Platforms
    /\ pool_size = max_workers
    /\ InitJobs
    /\ text_file \in Files(MentionLines)
    /\ lines = LoadTextFile(text_file)
    /\ args \in [transcription_text : Texts,
                 audio_filename : {"PTT-20250613-WA0020.opus", None}]

SpecMention == InitMention /\ [][NextText]_vars


\* ------------------------------------------------------------------ claims
Created == DOMAIN obj
Terminal == {"completed", "failed"}
Order ==
    {<<"pending", "preprocessing">>, <<"preprocessing", "processing">>,
     <<"processing", "postprocessing">>, <<"postprocessing", "completed">>}
LegalTransition(from, to) ==
    \/ <<from, to>> \in Order
    \/ from \notin Terminal /\ to = "failed"

\* C1: every change of a job's status is a step of pending -> preprocessing ->
\* processing -> postprocessing -> completed or goes from a non-terminal
\* status to failed. (Changes to and from cancelled are left to C5 and C6.)
C1_StatusOrder ==
    [][\A j \in Created :
         (/\ obj'[j].status # obj[j].status
          /\ obj[j].status # "cancelled"
          /\ obj'[j].status # "cancelled")
         => LegalTransition(obj[j].status, obj'[j].status)]_vars

\* C2: a finished run_complete_processing leaves the job completed when it
\* returns success, and failed with an error when it returns failure.
C2_RunEndsTerminal ==
    \A t \in Threads : \A j \in DOMAIN run[t] :
        run[t][j].at = "done" =>
            IF run[t][j].result.success
            THEN obj[j].status = "completed"
            ELSE obj[j].status = "failed" /\ obj[j].error # None

\* C3: two jobs with the same archive name that both completed have each
\* their own output file, holding their own transcript.
C3_JobIsolation ==
    \A j1 \in Created : \A j2 \in Created :
        (/\ j1 # j2
         /\ obj[j1].zip_name = obj[j2].zip_name
         /\ obj[j1].status = "completed"
         /\ obj[j2].status = "completed")
        => /\ obj[j1].work_dir # obj[j2].work_dir
           /\ obj[j1].final_output_path # obj[j2].final_output_path
           /\ Exists(obj[j1].final_output_path)
           /\ output_data[obj[j1].final_output_path] = j1

Returned(t, op) == ret[t].op = op /\ ~ret[t].raised

\* C4: the mapping process_all_jobs returns has exactly one entry for every
\* job registered at the call, each under its own id; the entry says success
\* exactly for the jobs that completed, and a job whose own archive and
\* transcription are fine is recorded as a failure only where its output file
\* was already written (a rename refused on nt), never because another job
\* failed.
C4_AllJobsRecorded ==
    \A t \in Threads :
        Returned(t, "process_all_jobs") =>
            LET called == ret[t].val.called
                mapping == ret[t].val.results
            IN  /\ DOMAIN mapping = called
                /\ \A j \in called :
                    /\ mapping[j].job_id = j
                    /\ mapping[j].success <=> obj[j].status = "completed"
                    /\ (/\ obj[j].archive = "flat"
                        /\ obj[j].result = [success |-> TRUE]
                        /\ ~mapping[j].success)
                       => platform = "nt" /\ Exists(obj[j].final_output_path)

\* C4 witness: a call returned two entries, one failed and one succeeded.
C4_Witness ==
    \E t \in Threads :
        /\ Returned(t, "process_all_jobs")
        /\ \E j1 \in ret[t].val.called : \E j2 \in ret[t].val.called :
            /\ ~ret[t].val.results[j1].success
            /\ ret[t].val.results[j2].success

CancelReturns(t) == pc[t].at \in {"cancel_check", "cancel_set"} /\ pc'[t] = Idle

\* C5: cancel_job returns true exactly when the job is registered and pending,
\* and then the job is cancelled; when it returns false no job has changed.
C5_CancelOnlyPending ==
    [][\A t \in Threads :
         CancelReturns(t) =>
            LET j == pc[t].job_id IN
            /\ ret'[t].val = TRUE <=> (j \in jobs /\ obj[j].status = "pending")
            /\ ret'[t].val = TRUE =>
                 obj' = [obj EXCEPT ![j].status = "cancelled"]
            /\ ret'[t].val = FALSE => obj' = obj
            /\ jobs' = jobs]_vars

\* C5 witness: a cancel_job returned true and the job is cancelled.
C5_Witness ==
    \E t \in Threads : \E j \in Created :
        /\ Returned(t, "cancel_job")
        /\ ret[t].val = TRUE
        /\ obj[j].status = "cancelled"

\* C5 witness of the other case: a cancel_job of a job past pending returned
\* false.
C5_WitnessRefused ==
    \E t \in Threads : \E j \in jobs :
        /\ Returned(t, "cancel_job")
        /\ ret[t].val = FALSE
        /\ obj[j].status \in {"processing", "completed", "failed"}

\* C6: a cancelled job stays cancelled.
C6_CancelledIsTerminal ==
    [][\A j \in Created :
         obj[j].status = "cancelled" => obj'[j].status = "cancelled"]_vars

\* C7: a job's progress stays within [0, 1] and never decreases.
C7_ProgressMonotonic ==
    [][\A j \in Created :
         /\ obj'[j].progress \in ProgressInit..ProgressDone
         /\ obj'[j].progress >= obj[j].progress]_vars

FailureResult(r, j) ==
    /\ DOMAIN r = {"success", "error", "job_id"}
    /\ ~r.success
    /\ r.error # None
    /\ r.job_id = j

\* C8: no call raises; every run_complete_processing that did not succeed
\* returned a result with success false, an error string and the job id, and
\* process_single_job and process_all_jobs hand such results on.
C8_NoExceptionEscapes ==
    \A t \in Threads :
        /\ ~ret[t].raised
        /\ \A j \in DOMAIN run[t] :
              (run[t][j].at = "done" /\ ~run[t][j].result.success)
              => FailureResult(run[t][j].result, j)
        /\ Returned(t, "process_all_jobs") =>
              \A j \in DOMAIN ret[t].val.results :
                  ~ret[t].val.results[j].success
                  => FailureResult(ret[t].val.results[j], j)
        /\ Returned(t, "process_single_job") =>
              /\ "success" \in DOMAIN ret[t].val
              /\ ~ret[t].val.success => ret[t].val.error # None

\* C8 witness: a job whose process phase reported failure without raising was
\* returned by process_single_job as a failure result.
C8_Witness ==
    \E t \in Threads : \E j \in Created :
        /\ Returned(t, "process_single_job")
        /\ ret[t].val = RunFailure(j, "Error en procesamiento")
        /\ obj[j].status = "processing"

\* C9: when cleanup_completed_jobs has returned, no job in a terminal state
\* (completed, failed or cancelled) is left in the registry.
C9_CleanupRemovesTerminal ==
    \A t \in Threads :
        Returned(t, "cleanup_completed_jobs") =>
            \A j \in jobs : obj[j].status \notin {"completed", "failed", "cancelled"}

\* Positions where the thread's next step reads, iterates or changes self.jobs.
ReadsRegistry == {"status", "cancel_check", "single_get", "cleanup_list", "pa_iter"}
MutatesRegistry == {"submit", "cleanup_del"}
AtRegistry(t) ==
    \/ pc[t].at \in ReadsRegistry \cup MutatesRegistry
    \/ pc[t].at = "cleanup_loop" /\ completed_jobs[t].todo # <<>>

\* C10: every access to the registry is made holding the lock, so no thread
\* is at a read, an iteration or a deletion while another is inside a mutation.
C10_RegistryGuarded ==
    \A t1 \in Threads : \A t2 \in Threads \ {t1} :
        ~(pc[t1].at \in MutatesRegistry /\ AtRegistry(t2))

ExecutingStatuses == {"preprocessing", "processing", "postprocessing"}
InAllJobs(t) == pc[t].at \in {"pa_iter", "pa_wait", "pa_abort"}

\* C11: during a process_all_jobs call no more than self.max_workers of the
\* jobs it dispatched are in an executing status (preprocessing, processing,
\* postprocessing) at the same time.
C11_PoolBound ==
    \A t \in Threads :
        InAllJobs(t) =>
            Cardinality({j \in DOMAIN run[t] : obj[j].status \in ExecutingStatuses})
                <= pool_size

\* The pool itself keeps its bound: the executions in progress, as opposed to
\* the statuses shown, never exceed self.max_workers.
C11_RunningBound ==
    \A t \in Threads :
        Cardinality({j \in DOMAIN run[t] : run[t][j].at \in Executing}) <= pool_size

\* The pool is saturated: a dispatched job waits while a worker is busy.
C11_Saturated ==
    \E t \in Threads : \E j1 \in DOMAIN run[t] : \E j2 \in DOMAIN run[t] :
        /\ InAllJobs(t)
        /\ run[t][j1].at \in Executing
        /\ run[t][j2].at = "queued"
        /\ Cardinality({j \in DOMAIN run[t] : run[t][j].at \in Executing}) = pool_size

\* A step of insert_transcription, and the mention it looks for.
InsertStep == calls' = calls + 1 /\ ret'["main"].op = "insert_transcription"
Mention == FilenameWithText(args.audio_filename)
Mentioning(ls) == {i \in DOMAIN ls : Contains(ls[i], Mention)}
FirstMentioning(ls) == CHOOSE i \in Mentioning(ls) : \A m \in Mentioning(ls) : i <= m
FirstIndex(line, tok) == CHOOSE k \in DOMAIN line : line[k] = tok /\ \A m \in 1..(k - 1) : line[m] # tok
\* What a line holds besides the mention and the words of the transcription.
Others(line) ==
    SelectSeq(line, LAMBDA x : x # Mention /\ ~Contains(args.transcription_text, x))

\* C12: an insert_transcription that returns true changes one line only, the
\* first that holds the mention of the file: the lines before and after it,
\* later lines with the same mention included, and the number of lines stay as
\* they were; in the changed line the text stands where the mention stood, what
\* precedes it is kept and so is everything that is not the mention.
C12_InsertFirstLineOnly ==
    [][(InsertStep /\ ret'["main"].val = TRUE) =>
         /\ Mentioning(lines) # {}
         /\ Len(lines') = Len(lines)
         /\ \A i \in DOMAIN lines : i # FirstMentioning(lines) => lines'[i] = lines[i]
         /\ LET old == lines[FirstMentioning(lines)]
                new == lines'[FirstMentioning(lines)]
                k == FirstIndex(old, Mention)
                text == args.transcription_text
            IN  /\ SubSeq(new, 1, k - 1) = SubSeq(old, 1, k - 1)
                /\ SubSeq(new, k, k + Len(text) - 1) = text
                /\ ~Contains(new, Mention)
                /\ Others(new) = Others(old)]_vars

\* C12 witness: the first call returned true and a later line still holds the
\* mention.
C12_Witness ==
    /\ calls = 1
    /\ Returned("main", "insert_transcription")
    /\ ret["main"].val = TRUE
    /\ Mentioning(lines) # {}

\* C13: an insert_transcription that follows a successful one for the same file
\* returns false and leaves the buffer and the saved file as they are.
C13_SecondInsertRefused ==
    [][(/\ InsertStep
        /\ Returned("main", "insert_transcription")
        /\ ret["main"].val = TRUE)
       => /\ ret'["main"].val = FALSE
          /\ lines' = lines
          /\ text_file' = text_file]_vars

\* The voice notes that come back with text, and a line with the mention of
\* each of them replaced by its text.
Transcribed(a) == {f \in AudioFilenames : a.transcriptions[f] = "text"}
RECURSIVE Splice(_, _)
Splice(line, fs) ==
    IF line = <<>> THEN <<>>
    ELSE (IF \E f \in fs : Head(line) = FilenameWithText(f)
          THEN TextOf(CHOOSE f \in fs : Head(line) = FilenameWithText(f))
          ELSE <<Head(line)>>) \o Splice(Tail(line), fs)

\* C14: the final output of a completed job exists and holds the transcript
\* of that job's archive.
C14_OutputIsOwnTranscript ==
    \A j \in Created :
        obj[j].status = "completed"
        => /\ Exists(obj[j].final_output_path)
           /\ output_data[obj[j].final_output_path] = j

\* C14, within one job: after process_audio_files the transcript file, read
\* back, is the transcript that was loaded, line for line, with the mention of
\* every transcribed voice note replaced by its text; if no line changed the
\* file is the one that was extracted, byte for byte.
C14_RoundTrip ==
    [][(calls' = calls + 1 /\ ret'["main"].op = "process_audio_files" /\ ~ret'["main"].raised)
       => /\ LoadTextFile(text_file') = [i \in DOMAIN lines |-> Splice(lines[i], Transcribed(args))]
          /\ (lines' = lines => text_file' = text_file)]_vars

\* A transcript in which a mention was replaced, saved with "\r\n".
C14_RoundTripWitness ==
    /\ Returned("main", "process_audio_files")
    /\ ret["main"].val.success
    /\ ret["main"].val.inserted_transcriptions > 0
    /\ \E i \in DOMAIN text_file : Contains(text_file[i], CRLF)

\* The voice notes found in the directory, those of the transcribed ones whose
\* mention is in the lines, and a process_audio_files that returned.
Found(a) == {f \in AudioFilenames : a.transcriptions[f] # "absent" /\ ExtractTimestamp(f) > 0}
Placed(ls, a) ==
    {f \in Transcribed(a) : \E i \in DOMAIN ls : Contains(ls[i], FilenameWithText(f))}
AudioStep ==
    /\ calls' = calls + 1
    /\ ret'["main"].op = "process_audio_files"
    /\ ~ret'["main"].raised
HasCounts(val, ls, a) ==
    /\ {"total_audio_files", "successful_transcriptions", "inserted_transcriptions"}
           \subseteq DOMAIN val
    /\ val.total_audio_files = Cardinality(Found(a))
    /\ val.successful_transcriptions = Cardinality(Transcribed(a))
    /\ val.inserted_transcriptions = Cardinality(Placed(ls, a))
    /\ val.inserted_transcriptions <= val.successful_transcriptions
    /\ val.successful_transcriptions <= val.total_audio_files

\* C15: whatever voice notes are found, process_audio_files reports how many
\* were found, how many came back with text and without error, and how many
\* of these had their mention replaced, with inserted <= successful <= total.
C15_Counts ==
    [][(AudioStep /\ Found(args) # {}) => HasCounts(ret'["main"].val, lines, args)]_vars

\* C15, when at least one voice note came back with text: the counts are
\* reported and are right.
C15_CountsWhenTranscribed ==
    [][(AudioStep /\ Transcribed(args) # {}) => HasCounts(ret'["main"].val, lines, args)]_vars

\* Three found, one transcription with an error, the mentions of the other
\* two in the transcript: inserted 2, successful 2, total 3.
C15_PartialBatch ==
    /\ Returned("main", "process_audio_files")
    /\ Cardinality({f \in AudioFilenames : args.transcriptions[f] = "error"}) = 1
    /\ ret["main"].val = [success |-> TRUE, total_audio_files |-> Cardinality(AudioFilenames),
                          successful_transcriptions |-> Cardinality(Transcribed(args)),
                          inserted_transcriptions |-> Cardinality(Transcribed(args))]
    /\ Cardinality(Transcribed(args)) = Cardinality(AudioFilenames) - 1

\* A process_audio_files that ended, the directory having been listed.
AudioEnd ==
    /\ calls' = calls + 1
    /\ ret'["main"].op = "process_audio_files"
    /\ args.oserror # "audio"

\* C16: process_audio_files does not raise; with no voice note found it
\* returns success false and the message that none was found; with at least
\* one found it returns success true and the three counts, however many
\* transcriptions failed.
C16_AudioResult ==
    [][AudioEnd =>
         /\ ~ret'["main"].raised
         /\ IF Found(args) = {}
            THEN ret'["main"].val = NoAudio
            ELSE /\ ret'["main"].val.success
                 /\ {"total_audio_files", "successful_transcriptions",
                     "inserted_transcriptions"} \subseteq DOMAIN ret'["main"].val]_vars

\* C16, the first half: no voice note found is reported, not raised.
C16_NoAudioReported ==
    [][(AudioEnd /\ Found(args) = {}) =>
         ~ret'["main"].raised /\ ret'["main"].val = NoAudio]_vars

\* Voice notes were found, none came back with text, and the call failed.
C16_AllFailed ==
    /\ Returned("main", "process_audio_files")
    /\ Found(args) # {}
    /\ ret["main"].val = NoTranscriptions

\* A process_image_files that ended, the directory having been listed, and
\* the images with a dated name whose mention is in the lines.
ImageEnd ==
    /\ calls' = calls + 1
    /\ ret'["main"].op = "process_image_files"
    /\ args.oserror # "images"
Referable(ls, a) ==
    {f \in a.images : /\ ExtractTimestampFromFilename(f) > 0
                      /\ \E i \in DOMAIN ls : Contains(ls[i], FilenameWithText(f))}

\* C17: process_image_files replaces the mention of every image that has a
\* dated name and is mentioned in the transcript by the reference to the
\* image, and processed_images is the number of these images; the other
\* images leave the lines alone.
C17_ImagesInserted ==
    [][ImageEnd =>
         /\ ret'["main"].val.success
         /\ ret'["main"].val.processed_images = Cardinality(Referable(lines, args))
         /\ \A i \in DOMAIN lines :
               lines'[i] = IF \E f \in Referable(lines, args) :
                                  Contains(lines[i], FilenameWithText(f))
                           THEN LET f == CHOOSE f \in Referable(lines, args) :
                                             Contains(lines[i], FilenameWithText(f))
                                IN  Replace(lines[i], FilenameWithText(f), ImageReference(f))
                           ELSE lines[i]]_vars

\* What process_image_files does: no line changes and no image is counted.
C17_NothingInserted ==
    [][ImageEnd => /\ lines' = lines
                   /\ text_file' = text_file
                   /\ ret'["main"].val = [success |-> TRUE, processed_images |-> 0]]_vars

\* An image with a dated name, mentioned in the transcript, went through
\* process_image_files.
C17_ImageMentioned ==
    /\ Returned("main", "process_image_files")
    /\ ret["main"].val.success
    /\ Referable(lines, args) # {}

\* What the two halves of process_all report, from the state it starts in.
AudioReport == ProcessAudioFiles(lines, args).result
ImageReport == ProcessImageFiles(ProcessAudioFiles(lines, args).lines, args).result

\* C18: the combined success of process_all is true if and only if
\* process_audio_files or process_image_files reports success, and false
\* exactly when both report failure.
C18_CombinedSuccess ==
    [][(calls' = calls + 1 /\ ret'["main"].op = "process_all" /\ ~ret'["main"].raised)
       => /\ ret'["main"].val.audio_processing = AudioReport
          /\ ret'["main"].val.image_processing = ImageReport
          /\ ret'["main"].val.success <=> (AudioReport.success \/ ImageReport.success)
          /\ ~ret'["main"].val.success <=> (~AudioReport.success /\ ~ImageReport.success)]_vars

\* C18 witness: process_all returned success although its audio half failed.
C18_Witness ==
    /\ Returned("main", "process_all")
    /\ ret["main"].val.success
    /\ ~ret["main"].val.audio_processing.success
    /\ ret["main"].val.image_processing.success

\* Both halves failed and so did process_all.
C18_BothFailed ==
    /\ Returned("main", "process_all")
    /\ ~ret["main"].val.success
    /\ ~ret["main"].val.audio_processing.success
    /\ ~ret["main"].val.image_processing.success

\* The lines that match the header pattern, the k-th of them in file order,
\* the line before the next header (or the last line), and the non-empty
\* lines i..j, each behind a space.
Headers(ls) == {i \in DOMAIN ls : MessagePattern(Strip(ls[i]))}
NthHeader(ls, k) ==
    CHOOSE i \in Headers(ls) : Cardinality({h \in Headers(ls) : h < i}) = k - 1
LastOf(ls, i) ==
    IF \E h \in Headers(ls) : h > i
    THEN (CHOOSE h \in Headers(ls) : h > i /\ \A g \in Headers(ls) : g > i => h <= g) - 1
    ELSE Len(ls)
RECURSIVE Continuations(_, _, _)
Continuations(ls, i, j) ==
    IF i > j THEN <<>>
    ELSE (IF Strip(ls[i]) = <<>> THEN <<>> ELSE <<Space>> \o Strip(ls[i]))
         \o Continuations(ls, i + 1, j)

\* C19: parse_whatsapp_format returns one message for each line that matches
\* the header pattern, in file order; the content of a message is what
\* follows the header on its line and then every non-empty line up to the
\* next header, each behind one space; lines before the first header are in
\* no message; get_message_count returns the number of header lines.
C19_OneMessagePerHeader ==
    [][/\ (calls' = calls + 1 /\ ret'["main"].op = "parse_whatsapp_format")
          => LET messages == ret'["main"].val
             IN  /\ Len(messages) = Cardinality(Headers(lines))
                 /\ \A k \in DOMAIN messages :
                       LET h == NthHeader(lines, k)
                       IN  /\ messages[k].line_number = h
                           /\ messages[k].content =
                                 Tail(Strip(lines[h]))
                                 \o Continuations(lines, h + 1, LastOf(lines, h))
       /\ (calls' = calls + 1 /\ ret'["main"].op = "get_message_count")
          => ret'["main"].val = Cardinality(Headers(lines))]_vars

\* C19 witness: a header line followed by two non-empty lines that are no
\* headers was parsed to one message.
C19_Witness ==
    /\ Returned("main", "parse_whatsapp_format")
    /\ Len(lines) = MaxLines
    /\ Headers(lines) = {1}
    /\ \A i \in 2..Len(lines) : Strip(lines[i]) # <<>>
    /\ Len(ret["main"].val) = 1

\* A line before the first header was dropped.
C19_LeadingLineDropped ==
    /\ Returned("main", "parse_whatsapp_format")
    /\ Len(lines) >= 2
    /\ Strip(lines[1]) # <<>>
    /\ Headers(lines) = {2}
    /\ Len(ret["main"].val) = 1

\* A job's first preprocess ends: its archive has not been extracted before.
FirstPreprocessEnd(j) ==
    /\ obj[j].status = "preprocessing"
    /\ obj[j].work_dir \notin processing_dir
    /\ obj'[j].progress # obj[j].progress \/ obj'[j].status # obj[j].status

\* C20: the preprocess of an archive that holds its transcript and media at
\* the top level, or under a root folder, succeeds: the job does not fail and
\* the transcript is at the job's temporary output name.
C20_PreprocessSucceeds ==
    [][\A j \in Created :
         (FirstPreprocessEnd(j) /\ obj[j].archive \in {"flat", "nested"})
         => /\ obj'[j].status # "failed"
            /\ TempOutputPath(obj[j].zip_name, obj[j].work_dir) \in DOMAIN output_data']_vars

\* C20, for the archive without a root folder.
C20_FlatPreprocessSucceeds ==
    [][\A j \in Created :
         (FirstPreprocessEnd(j) /\ obj[j].archive = "flat")
         => /\ obj'[j].status # "failed"
            /\ TempOutputPath(obj[j].zip_name, obj[j].work_dir) \in DOMAIN output_data']_vars

\* The job of an archive with a root folder failed in preprocess.
C20_NestedFailed ==
    \E j \in Created :
        /\ obj[j].archive = "nested"
        /\ obj[j].status = "failed"
        /\ obj[j].error = ErrorPreprocess

\* C30: a process_image_files that does not meet an exception returns success
\* true with the count of images inserted, zero included; hence a process_all
\* whose image half met no exception returns success true, also when its
\* audio half failed and no image was inserted.
C30_ImageSuccessWithoutImages ==
    [][/\ ImageEnd
          => /\ ~ret'["main"].raised
             /\ ret'["main"].val.success
             /\ ret'["main"].val.processed_images
                   = ProcessImagesForTextFile(lines, args.images).processed_count
       /\ (/\ calls' = calls + 1
           /\ ret'["main"].op = "process_all"
           /\ args.oserror = "none")
          => /\ ~ret'["main"].raised
             /\ ret'["main"].val.success
             /\ ret'["main"].val.image_processing.success]_vars

\* C30 witness: process_all returned success with no image in the directory
\* and its audio half failed.
C30_Witness ==
    /\ Returned("main", "process_all")
    /\ args.images = {}
    /\ ~ret["main"].val.audio_processing.success
    /\ ret["main"].val.image_processing = [success |-> TRUE, processed_images |-> 0]
    /\ ret["main"].val.success

\* The threads in which run_complete_processing of job j is under way.
Running(j) == {t \in Threads : At(t, j) \in Executing}

\* C28: run_complete_processing of a job is never under way in two threads
\* at once.
C28_OneThreadPerJob == \A j \in Created : Cardinality(Running(j)) <= 1

\* Two process_all_jobs calls run the same job at once.
C28_TwoProcessAll ==
    \E j \in Created :
        /\ Running(j) = Threads
        /\ \A t \in Threads : pc[t].at # "single_run"

\* cleanup() of job j was called in this step by cleanup_completed_jobs.
CleanedUp(t, j) ==
    /\ pc[t].at = "cleanup_loop"
    /\ pc'[t].at = "cleanup_del"
    /\ j = Head(completed_jobs[t].todo)

\* C27: after cleanup() of a job neither its work directory nor the temporary
\* copy of its transcript in the output area exists.
C27_CleanupRemovesTemp ==
    [][\A t \in Threads : \A j \in Created :
         CleanedUp(t, j)
         => /\ obj[j].work_dir \notin processing_dir'
            /\ TempOutputPath(obj[j].zip_name, obj[j].work_dir) \notin DOMAIN output_data']_vars

\* C27, the work directory alone.
C27_CleanupRemovesWorkDir ==
    [][\A t \in Threads : \A j \in Created :
         CleanedUp(t, j) => obj[j].work_dir \notin processing_dir']_vars

\* A failed job was cleaned up and deleted, and its temporary copy is still
\* in the output area.
C27_TempLeft ==
    \E j \in Created :
        /\ j \notin jobs
        /\ obj[j].status = "failed"
        /\ obj[j].work_dir \notin processing_dir
        /\ Exists(TempOutputPath(obj[j].zip_name, obj[j].work_dir))

\* An execution of job j started by thread t enters process, enters
\* postprocess, ends with a failure result.
EntersProcess(t, j) == At(t, j) # "proc" /\ At(t, j)' = "proc"
EntersPostprocess(t, j) == At(t, j) # "post" /\ At(t, j)' = "post"
EndsInFailure(t, j) ==
    /\ At(t, j) \in Executing
    /\ At(t, j)' = "done"
    /\ ~run'[t][j].result.success
\* The files at final output paths.
FinalFiles(files) == [p \in {q \in DOMAIN files : q.pattern = "final"} |-> files[p]]

\* C26: in an execution of run_complete_processing process starts only after
\* preprocess returned true (the temporary copy is there and progress is what
\* a successful preprocess leaves), postprocess starts only after process
\* returned a success result, the step in which a phase fails ends the
\* execution without touching the output area, and a transcript gets to a
\* final output path only by a postprocess that follows a successful process.
C26_PhasesShortCircuit ==
    [][/\ \A t \in Threads : \A j \in Created :
            /\ EntersProcess(t, j)
               => /\ At(t, j) = "pre_done"
                  /\ obj[j].progress = ProgressPreDone
                  /\ Exists(TempOutputPath(obj[j].zip_name, obj[j].work_dir))
            /\ EntersPostprocess(t, j)
               => /\ At(t, j) = "proc_done"
                  /\ obj[j].progress = ProgressProcDone
                  /\ obj[j].result.success
            /\ EndsInFailure(t, j) => output_data' = output_data
       /\ FinalFiles(output_data') # FinalFiles(output_data)
          => \E j \in Created :
                /\ obj[j].status = "postprocessing"
                /\ obj[j].result.success
                /\ obj'[j].status = "completed"
                /\ output_data'[obj[j].final_output_path] = j]_vars

\* C26 witness: an execution stopped after process returned a failure result:
\* the job's temporary copy is still there and was not renamed.
C26_Witness ==
    \E t \in Threads : \E j \in Created :
        /\ At(t, j) = "done"
        /\ ~run[t][j].result.success
        /\ obj[j].progress = ProgressProcDone
        /\ ~obj[j].result.success
        /\ Exists(TempOutputPath(obj[j].zip_name, obj[j].work_dir))
        /\ ~Exists(obj[j].final_output_path)

\* C25: for a header with hour h in 1..12 and minute m in 0..59 and a date of
\* the calendar, _parse_whatsapp_timestamp gives hour h + 12 for p.m. unless
\* h = 12 (then 12), hour h for a.m. unless h = 12 (then 0), an hour in 0..23,
\* and minute, day, month and year as in the header.
C25_TwelveHourClock ==
    [][(/\ calls' = calls + 1
        /\ ret'["main"].op = "_parse_whatsapp_timestamp"
        /\ args.hour \in 1..12
        /\ args.minute \in 0..59
        /\ args.day <= DaysInMonth(args.year, args.month))
       => LET t == ret'["main"].val
          IN  /\ t # Now
              /\ t.hour = (IF args.am_pm = "p.m."
                           THEN (IF args.hour = 12 THEN 12 ELSE args.hour + 12)
                           ELSE (IF args.hour = 12 THEN 0 ELSE args.hour))
              /\ t.hour \in 0..23
              /\ t.minute = args.minute
              /\ t.day = args.day
              /\ t.month = args.month
              /\ t.year = args.year]_vars

\* C25 witness: 12/6/2025, 3:15 p.m. parsed to 15:15 of that day.
C25_Witness ==
    /\ Returned("main", "_parse_whatsapp_timestamp")
    /\ args = [day |-> 12, month |-> 6, year |-> 2025, hour |-> 3, minute |-> 15,
               am_pm |-> "p.m."]
    /\ ret["main"].val = [year |-> 2025, month |-> 6, day |-> 12, hour |-> 15, minute |-> 15]

\* 12:05 a.m. parsed to 0:05.
C25_Midnight ==
    /\ Returned("main", "_parse_whatsapp_timestamp")
    /\ args.hour = 12 /\ args.am_pm = "a.m." /\ args.minute = 5
    /\ ret["main"].val # Now
    /\ ret["main"].val.hour = 0

\* An hour outside the 12-hour clock, or a day the month does not have, gives
\* the time of the call.
C25_OutsideClock ==
    /\ Returned("main", "_parse_whatsapp_timestamp")
    /\ args.hour = 13 /\ args.am_pm = "p.m."
    /\ ret["main"].val = Now

\* What an enumeration has to return for a filter and a sort key: every
\* matching file of the directory once, ascending by key, ties in the
\* order of the directory.
IndexIn(seq, x) == CHOOSE i \in DOMAIN seq : seq[i] = x
Enumerates(result, Matches(_), Key(_)) ==
    /\ {result[i] : i \in DOMAIN result} = {f \in {args.iterdir[i] : i \in DOMAIN args.iterdir} : Matches(f)}
    /\ \A i, k \in DOMAIN result : i < k =>
          /\ result[i] # result[k]
          /\ Key(result[i]) <= Key(result[k])
          /\ Key(result[i]) = Key(result[k])
                => IndexIn(args.iterdir, result[i]) < IndexIn(args.iterdir, result[k])
AudioSortKey(filename) ==
    IF ExtractTimestamp(filename) = 0 THEN DatetimeMax ELSE ExtractTimestamp(filename)

\* C24: an enumeration returns every file whose extension matches the filter
\* (.opus for audio, the supported formats for images), ascending by
\* timestamp, the files without a timestamp last, ties in directory order;
\* an absent directory gives the empty result.
C24_Enumeration ==
    /\ Returned("main", "get_audio_files_with_timestamps") =>
          IF args.exists THEN Enumerates(ret["main"].val, IsAudioFile, AudioSortKey)
          ELSE ret["main"].val = <<>>
    /\ Returned("main", "get_images_with_timestamps") =>
          IF args.exists THEN Enumerates(ret["main"].val, IsImageFile, ImageSortKey)
          ELSE ret["main"].val = <<>>

\* The image half of C24 holds.
C24_ImagesEnumerated ==
    Returned("main", "get_images_with_timestamps") =>
        IF args.exists THEN Enumerates(ret["main"].val, IsImageFile, ImageSortKey)
        ELSE ret["main"].val = <<>>

\* The audio half of C24 holds for the voice notes whose name carries a date.
C24_DatedAudioEnumerated ==
    Returned("main", "get_audio_files_with_timestamps") =>
        IF args.exists
        THEN Enumerates(ret["main"].val,
                        LAMBDA f : IsAudioFile(f) /\ ExtractTimestamp(f) > 0, AudioSortKey)
        ELSE ret["main"].val = <<>>

\* Images with and without a date, among them two of one day in directory
\* order, were enumerated.
C24_ImagesWitness ==
    /\ Returned("main", "get_images_with_timestamps")
    /\ ret["main"].val = <<"IMG-20250613-WA0001.jpg", "IMG-20250717-WA0002.jpg", "FOTO.JPG", "foto.jpg">>
    /\ args.iterdir = <<"FOTO.JPG", "IMG-20250717-WA0002.jpg", "foto.jpg", "IMG-20250613-WA0001.jpg">>

\* An .opus file without a date in its name is left out of the audio
\* enumeration.
C24_UndatedAudioOmitted ==
    /\ Returned("main", "get_audio_files_with_timestamps")
    /\ args.iterdir = <<"AUD-20250613-WA0001.opus", "PTT-20250613-WA0020.opus">>
    /\ ret["main"].val = <<"PTT-20250613-WA0020.opus">>

\* insert_transcription is called with a file name while some line of the
\* buffer holds the mention tok; it returns true and the first such line
\* has the text where the mention stood.
InsertCalledOn(tok) ==
    /\ calls' = calls + 1
    /\ ret'["main"].op = "insert_transcription"
    /\ args.audio_filename # None
    /\ \E i \in DOMAIN lines : Contains(lines[i], tok)
Spliced(tok) ==
    /\ ret'["main"].val = TRUE
    /\ LET i == CHOOSE k \in DOMAIN lines :
                    /\ Contains(lines[k], tok)
                    /\ \A m \in DOMAIN lines : Contains(lines[m], tok) => k <= m
       IN  /\ ~Contains(lines'[i], tok)
           /\ lines'[i] = Replace(lines[i], tok, args.transcription_text)

C23_AttachedFileNotFound ==
    /\ Returned("main", "insert_transcription")
    /\ ret["main"].val = FALSE
    /\ args.audio_filename = "PTT-20250613-WA0020.opus"
    /\ Len(lines) = 1
    /\ Contains(lines[1], AttachedFile("PTT-20250613-WA0020.opus"))

\* get_job_status returns the snapshot of a registered job j to thread t.
SnapshotReturned(t, j) ==
    /\ pc[t] = [at |-> "status", job_id |-> j]
    /\ j \in jobs
    /\ pc'[t] = Idle

\* C22: in every status snapshot final_output_path is non-null only if the
\* job's own status is completed, whatever other jobs have done.
C22_FinalPathOnlyWhenCompleted ==
    [][\A t \in Threads, j \in JobIds :
          SnapshotReturned(t, j)
          => LET snapshot == ret'[t].val
             IN  snapshot.final_output_path # NoPath => snapshot.status = "completed"]_vars

\* The part of C22 that holds: the path of a snapshot is the job's own final
\* output path or null, and it is non-null exactly when a file is there.
C22_FinalPathWhenFileExists ==
    [][\A t \in Threads, j \in JobIds :
          SnapshotReturned(t, j)
          => LET snapshot == ret'[t].val
             IN  /\ snapshot.final_output_path \in {NoPath, obj[j].final_output_path}
                 /\ snapshot.final_output_path # NoPath <=> Exists(obj[j].final_output_path)]_vars

\* A job that was never run reports the final output path that the job
\* submitted before it under the same archive name has written.
C22_PendingReportsPath ==
    /\ Returned("main", "get_job_status")
    /\ Len(obj) = 2
    /\ obj[1].zip_name = obj[2].zip_name
    /\ obj[1].status = "completed"
    /\ obj[2].status = "pending"
    /\ output_data[obj[2].final_output_path] = 1
    /\ ret["main"].val.job_id = 2
    /\ ret["main"].val.status = "pending"
    /\ ret["main"].val.final_output_path = obj[2].final_output_path

\* No thread is in the middle of a phase of job j.
BetweenPhases(j) == \A t \in Threads : At(t, j) \notin {"pre", "proc", "post"}

C29_CompletedJobSettledButError ==
    \A j \in jobs :
        (BetweenPhases(j) /\ obj[j].status = "completed")
        => /\ obj[j].progress = ProgressDone
           /\ obj[j].end_time # NoTime
           /\ obj[j].end_time >= obj[j].start_time
           /\ Exists(obj[j].final_output_path)
           /\ ~Exists(TempOutputPath(obj[j].zip_name, obj[j].work_dir))

\* A job completed in its third execution still has the error of the
\* second.
C29_CompletedWithError ==
    \E j \in jobs :
        /\ \A t \in Threads : run[t] = Empty
        /\ obj[j].status = "completed"
        /\ obj[j].progress = ProgressDone
        /\ obj[j].error = ErrorPreprocess
        /\ obj[j].start_time = MaxCalls
        /\ Exists(obj[j].final_output_path)

\* get_job_status returns a snapshot of job j to the reader while the
\* worker thread is inside run_complete_processing of that job.
SnapshotWhileRunning(j) ==
    /\ pc["other"].at = "get_status"
    /\ pc["other"].job_id = j
    /\ pc'["other"] = Idle
    /\ At("main", j) \notin {"none", "done"}

\* C21: a snapshot returned by get_job_status while the job's worker is
\* running never shows status failed with a null error, nor status completed
\* with progress below 1.0 or a null end_time, in any interleaving of the
\* reads with the worker's assignments.
C21_SnapshotConsistent ==
    [][\A j \in JobIds :
          SnapshotWhileRunning(j)
          => LET snapshot == ret'["other"].val
             IN  /\ snapshot.status = "failed" => snapshot.error # None
                 /\ snapshot.status = "completed"
                       => snapshot.progress = ProgressDone /\ snapshot.end_time # NoTime]_vars

\* The three parts of C21, one by one.
C21_FailedHasError ==
    [][\A j \in JobIds :
          SnapshotWhileRunning(j)
          => (ret'["other"].val.status = "failed" => ret'["other"].val.error # None)]_vars
C21_CompletedHasEndTime ==
    [][\A j \in JobIds :
          SnapshotWhileRunning(j)
          => (ret'["other"].val.status = "completed"
                 => ret'["other"].val.end_time # NoTime)]_vars
C21_CompletedHasFullProgress ==
    [][\A j \in JobIds :
          SnapshotWhileRunning(j)
          => (ret'["other"].val.status = "completed"
                 => ret'["other"].val.progress = ProgressDone)]_vars

\* get_status has built the dict of job 1, all keys evaluated, in the
\* second call of the behaviour.
DictBuilt ==
    /\ pc["other"].at = "get_status"
    /\ pc["other"].job_id = 1
    /\ Len(pc["other"].read) = Len(StatusKeys)
    /\ calls = 2

\* A dict with status failed and no error is about to be returned: it was
\* built while the worker was between "self.status = 'failed'" and
\* "self.error = ..." of the job's first execution.
C21_FailedWithoutError ==
    /\ DictBuilt
    /\ pc["other"].read[3] = "failed"
    /\ pc["other"].read[5] = None
    /\ pc["other"].read[7] # NoTime
    /\ At("main", 1) \in {"pre_error", "proc_error", "post_error"}

\* A dict with status completed and no end_time is about to be returned:
\* the worker is before "self.end_time = datetime.now()".
C21_CompletedWithoutEndTime ==
    /\ DictBuilt
    /\ pc["other"].read[3] = "completed"
    /\ pc["other"].read[4] = ProgressDone
    /\ pc["other"].read[8] = NoTime
    /\ At("main", 1) = "post_end_time"
====
